---- MODULE Spec2Model ----
(***************************************************************************)
(* A model of rust_arkitect: the descendant test on logical paths, the     *)
(* three built-in module rules, the engine's accumulation of violations,   *)
(* the Arkitect wrapper with its baseline, the detection of circular       *)
(* dependencies, the project-rule step of a run and the extraction of the  *)
(* dependencies of a file.                                                 *)
(*                                                                         *)
(* Logical paths, dependencies and messages are strings, as in the code;   *)
(* starts_with, format!, join and split work on their characters.          *)
(***************************************************************************)
EXTENDS Integers, Sequences, FiniteSets, TLC

VARIABLES
    \* ---- one call of is_child_of (SpecIsChild)
    ic_impl,        \* which IsChild impl is called: "builtin_rules" or "rules"
    ic_self,        \* the receiver string
    ic_module,      \* the module argument
    ic_result,      \* "none" before the call, then "true", "false" or "panic"
    \* ---- one rule against one file (SpecRule)
    file,           \* a RustFile: [path, logical_path, dependencies]
    rule,           \* a rule: [kind, subject, list]
    applicable,     \* "none", then the result of rule.is_applicable(file)
    outcome,        \* NoOutcome, then the result of rule.apply(file)
    rpc,            \* "new", "asked", "applied"
    \* ---- Arkitect and Engine (Spec)
    baseline,       \* Arkitect.baseline
    rules,          \* the rules handed to complies_with / Engine.rules
    violations,     \* Engine.violations
    project,        \* Arkitect.project: what project_root is ("workspace", "crate",
                    \* "invalid"; "none" outside a run)
    members,        \* workspace members still to visit by validate_workspace
    depth,          \* number of validate_dir calls on the stack
    seen,           \* the RustFiles apply_rules has built, in discovery order
    ri,             \* apply_rules: index of the rule the loop is at
    pc,             \* position of the run
    result,         \* NoResult, then what complies_with returned
    \* ---- one call of find_all_cycles_in_dependencies (SpecCycles)
    graph,          \* the dependency graph: a set of entries <<node, deps>>
    max_depth,      \* the truncation depth
    cycles,         \* the list the call returned
    cpc,            \* "new", then "found"
    \* ---- an engine run with module rules and project rules (SpecProject)
    pfiles,         \* RustProject.files
    module_rules,   \* the module rules of the rule set
    project_rules,  \* the project rules of the rule set: their max_depth
    pviolations,    \* the violations accumulated so far
    fi,             \* step 1: index of the file the loop is at
    pj,             \* step 2: index of the project rule the loop is at
    applied,        \* how many times each project rule has been applied
    poutcome,       \* what the last project rule applied returned
    ppc,            \* "modules", "project", "done"
    \* ---- one call of get_dependencies_in_file (SpecDeps)
    src_file,       \* the file: [logical_path, items], items being its syntax tree
    scan,           \* [dependencies, aliases]: the two locals of the function
    item_i,         \* step 1: index of the top-level item the loop is at
    collected,      \* collector.dependencies once the visitor has walked the file
    returned,       \* the list the call returned
    dpc,            \* "declarations", "visited", "done"
    \* ---- one call of parse_module_logical_path (SpecResolve)
    filesystem,     \* the file system: [dirs, files, manifests]
    file_path,      \* the path handed to the call: its components
    resolved,       \* NoOutcome, then the Result the call returned
    res_pc,         \* "new", then "done"
    \* ---- one call of RustProject::from_directory (SpecDiscover)
    root_dir,       \* the directory handed to the call
    source_dirs,    \* the source directories found, in member order
    sd_i,           \* step 3: index of the source directory being walked
    walked,         \* the entries of that directory WalkDir has yielded
    rust_files,     \* the RustFiles built so far
    discovered,     \* NoOutcome, then what the call returned
    dep_graph,      \* what to_dependency_graph returned for the project
    dis_pc,         \* "manifest", "walk", "built", "done"
    \* ---- one chain of calls on the rule builder (SpecDsl)
    bstate,         \* the State parameter of ArchitecturalRules<State>
    current_subject,\* ArchitecturalRules.current_subject, an Option
    dsl_rules,      \* ArchitecturalRules.rules: [module_rules, project_rules]
    built,          \* None, then Some of the Rules that build() returned
    calls,          \* the calls of the chain so far, in order
    \* ---- find_all_cycles_in_dependencies, step by step (SpecOrder, with the
    \*      variables of SpecCycles)
    iteration,      \* the order in which the graph yielded its entries
    unified         \* the graph unify_submodules_in_graph returned

icVars == <<ic_impl, ic_self, ic_module, ic_result>>
ruleVars == <<file, rule, applicable, outcome, rpc>>
engineVars == <<baseline, rules, violations, project, members, depth, seen, ri, pc, result>>
cycleVars == <<graph, max_depth, cycles, cpc>>
projVars == <<pfiles, module_rules, project_rules, pviolations, fi, pj, applied, poutcome,
              ppc>>
depVars == <<src_file, scan, item_i, collected, returned, dpc>>
resolveVars == <<filesystem, file_path, resolved, res_pc>>
discVars == <<root_dir, source_dirs, sd_i, walked, rust_files, discovered, dep_graph,
             dis_pc>>
dslVars == <<bstate, current_subject, dsl_rules, built, calls>>
orderVars == <<iteration, unified>>
moreVars == <<resolveVars, discVars, dslVars, orderVars>>
extVars == <<cycleVars, projVars, depVars, moreVars>>
vars == <<ic_impl, ic_self, ic_module, ic_result, file, rule, applicable, outcome, rpc,
          baseline, rules, violations, project, members, depth, seen, ri, pc, result,
          graph, max_depth, cycles, cpc,
          pfiles, module_rules, project_rules, pviolations, fi, pj, applied, poutcome, ppc,
          src_file, scan, item_i, collected, returned, dpc,
          filesystem, file_path, resolved, res_pc,
          root_dir, source_dirs, sd_i, walked, rust_files, discovered, dep_graph,
          dis_pc, bstate, current_subject, dsl_rules, built, calls, iteration, unified>>

(***************************************************************************)
(* Bounds of the model.                                                    *)
(***************************************************************************)
\* longest dependency list of a file
MaxDeps == 3
\* longest allowed / forbidden list of a rule
MaxList == 1
\* most rules handed to one run
MaxRules == 2
\* most source files one run discovers
MaxFiles == 2
\* deepest nesting of validate_dir calls
MaxDepth == 2
\* most members of a workspace
MaxMembers == 1
\* largest baseline
MaxBaseline == 1

(***************************************************************************)
(* The strings the inputs are drawn from.  "ab" begins with "a" but is not *)
(* a::-descendant of it; "a::b" is; "b" is unrelated; "" is the empty      *)
(* module.                                                                 *)
(***************************************************************************)
PathNames == {"a", "ab", "a::b", "b"}
ModuleNames == PathNames \cup {""}
FsPaths == {"/p/src/x.rs", "/p/src/y.rs"}
\* receivers of a single is_child_of call: the paths and two deeper ones
Receivers == PathNames \cup {"ab::c", "a::b::c"}

\* sequences over S of length at most n
SeqsUpTo(S, n) == UNION {[1..k -> S] : k \in 0..n}
\* those without a repeated element
InjSeqsUpTo(S, n) == {s \in SeqsUpTo(S, n) : \A i, j \in DOMAIN s : s[i] = s[j] => i = j}

(***************************************************************************)
(* Strings.                                                                *)
(***************************************************************************)
\* str::starts_with
StartsWith(s, p) == Len(p) <= Len(s) /\ SubSeq(s, 1, Len(p)) = p

\* [String]::join(sep)
RECURSIVE Join(_, _)
Join(parts, sep) ==
    IF parts = <<>> THEN ""
    ELSE IF Len(parts) = 1 THEN parts[1]
    ELSE parts[1] \o sep \o Join(Tail(parts), sep)

\* ansi_term Style::paint of the bold red style RGB(255, 0, 0): the text between
\* the escape sequences that switch the style on and off (ESC written out)
RedPaint(s) == "ESC[1;38;2;255;0;0m" \o s \o "ESC[0m"

\* the Err payload of the three built-in rules
ForbiddenMessage(forbidden, path) ==
    "Forbidden dependencies to " \o RedPaint("[" \o Join(forbidden, ", ") \o "]")
        \o " in file://" \o path

(***************************************************************************)
(* is_child_of: the two IsChild implementations.  Results are "true",      *)
(* "false" or "panic".                                                     *)
(***************************************************************************)
Bool(b) == IF b THEN "true" ELSE "false"

\* rules::utils::IsChild (used by MayDependOnRule and MustNotDependOnRule)
RulesIsChildOf(self, module) == Bool(StartsWith(self, module))

\* a descendant test that forgets the segment boundary
IsChildOfAnyPrefix(self, module) ==
    IF module = "" THEN "panic" ELSE Bool(StartsWith(self, module))

\* builtin_rules::utils::IsChild (used by MustNotDependOnAnythingRule)
IsChildOf(self, module) ==
    IF module = "" THEN "panic"
    ELSE Bool(self = module \/ StartsWith(self, module \o "::"))

(***************************************************************************)
(* The built-in module rules.  An apply outcome is [kind, msg] with kind   *)
(* "Ok", "Err" or "Panic".                                                 *)
(***************************************************************************)
RuleKinds == {"MayDependOn", "MustNotDependOn", "MustNotDependOnAnything"}
NoOutcome == [kind |-> "none", msg |-> ""]
Ok == [kind |-> "Ok", msg |-> ""]
Err(m) == [kind |-> "Err", msg |-> m]
Panic == [kind |-> "Panic", msg |-> ""]

\* MayDependOnRule::apply, the filter closure
MayDependOnIsForbidden(r, dependency) ==
    LET is_child_of_subject == RulesIsChildOf(dependency, r.subject) = "true"
        is_allowed == \E i \in DOMAIN r.list : RulesIsChildOf(dependency, r.list[i]) = "true"
    IN  IF ~is_child_of_subject
        THEN (IF ~is_allowed THEN TRUE ELSE FALSE)
        ELSE FALSE

\* MayDependOnRule::apply
MayDependOnApply(r, f) ==
    LET Keep(d) == MayDependOnIsForbidden(r, d)
        forbidden_dependencies == SelectSeq(f.dependencies, Keep)
    IN  IF forbidden_dependencies # <<>>
        THEN Err(ForbiddenMessage(forbidden_dependencies, f.path))
        ELSE Ok

\* an is_applicable that never looks at the file
MayDependOnAlwaysApplicable(r, f) == "true"

\* MayDependOnRule::is_applicable
MayDependOnIsApplicable(r, f) == RulesIsChildOf(f.logical_path, r.subject)

\* MustNotDependOnRule::apply, the filter closure
MustNotDependOnIsForbidden(r, dependency) ==
    \E i \in DOMAIN r.list : RulesIsChildOf(dependency, r.list[i]) = "true"

\* MustNotDependOnRule::apply
MustNotDependOnApply(r, f) ==
    LET Keep(d) == MustNotDependOnIsForbidden(r, d)
        forbidden_dependencies == SelectSeq(f.dependencies, Keep)
    IN  IF forbidden_dependencies # <<>>
        THEN Err(ForbiddenMessage(forbidden_dependencies, f.path))
        ELSE Ok

\* MustNotDependOnRule::is_applicable
MustNotDependOnIsApplicable(r, f) == RulesIsChildOf(f.logical_path, r.subject)

\* iter().any(|allowed| dependency.is_child_of(allowed)): left to right, stopping
\* at the first true; a panicking call ends it
RECURSIVE AnyAllowed(_, _)
AnyAllowed(dependency, list) ==
    IF list = <<>> THEN "false"
    ELSE LET c == IsChildOf(dependency, Head(list))
         IN  IF c = "false" THEN AnyAllowed(dependency, Tail(list)) ELSE c

\* a filter closure that forgets the inner-module exemption
AnythingIsForbiddenNoInner(r, dependency) ==
    LET a == AnyAllowed(dependency, r.list)
    IN  IF r.subject = "" \/ a = "panic" THEN "panic" ELSE Bool(a = "false")

\* MustNotDependOnAnythingRule::apply, the filter closure:
\* !(dependency.is_child_of(subject) || allowed.any(..)), || short-circuits
MustNotDependOnAnythingIsForbidden(r, dependency) ==
    LET s == IsChildOf(dependency, r.subject)
    IN  IF s = "panic" THEN "panic"
        ELSE IF s = "true" THEN "false"
        ELSE LET a == AnyAllowed(dependency, r.list)
             IN  IF a = "panic" THEN "panic" ELSE Bool(a = "false")

\* filter(..).cloned().collect(): the closure runs on every dependency in order;
\* [panic, deps]
RECURSIVE AnythingForbidden(_, _)
AnythingForbidden(r, deps) ==
    IF deps = <<>> THEN [panic |-> FALSE, deps |-> <<>>]
    ELSE LET t == MustNotDependOnAnythingIsForbidden(r, Head(deps))
             rest == AnythingForbidden(r, Tail(deps))
         IN  IF t = "panic" \/ rest.panic THEN [panic |-> TRUE, deps |-> <<>>]
             ELSE [panic |-> FALSE,
                   deps |-> (IF t = "true" THEN <<Head(deps)>> ELSE <<>>) \o rest.deps]

\* MustNotDependOnAnythingRule::apply
MustNotDependOnAnythingApply(r, f) ==
    LET forbidden_dependencies == AnythingForbidden(r, f.dependencies)
    IN  IF forbidden_dependencies.panic THEN Panic
        ELSE IF forbidden_dependencies.deps = <<>> THEN Ok
        ELSE Err(ForbiddenMessage(forbidden_dependencies.deps, f.path))

\* MustNotDependOnAnythingRule::is_applicable
MustNotDependOnAnythingIsApplicable(r, f) == IsChildOf(f.logical_path, r.subject)

\* dyn Rule: rule.is_applicable(&file)
RuleIsApplicable(r, f) ==
    CASE r.kind = "MayDependOn" -> MayDependOnIsApplicable(r, f)
      [] r.kind = "MustNotDependOn" -> MustNotDependOnIsApplicable(r, f)
      [] r.kind = "MustNotDependOnAnything" -> MustNotDependOnAnythingIsApplicable(r, f)

\* dyn Rule: rule.apply(&file)
RuleApply(r, f) ==
    CASE r.kind = "MayDependOn" -> MayDependOnApply(r, f)
      [] r.kind = "MustNotDependOn" -> MustNotDependOnApply(r, f)
      [] r.kind = "MustNotDependOnAnything" -> MustNotDependOnAnythingApply(r, f)

\* the files and rules the inputs are drawn from
Files == [path : FsPaths, logical_path : PathNames,
          dependencies : InjSeqsUpTo(PathNames, MaxDeps)]
Rules == [kind : RuleKinds, subject : ModuleNames, list : SeqsUpTo(ModuleNames, MaxList)]
NoFile == [path |-> "", logical_path |-> "", dependencies |-> <<>>]
NoRule == [kind |-> "none", subject |-> "", list |-> <<>>]
NoResult == [kind |-> "none", violations |-> <<>>]

(***************************************************************************)
(* SpecIsChild: one call of is_child_of on drawn strings.                  *)
(***************************************************************************)
IcIdle ==
    /\ ic_impl = "none" /\ ic_self = "" /\ ic_module = "" /\ ic_result = "none"
RuleIdle ==
    /\ file = NoFile /\ rule = NoRule /\ applicable = "none"
    /\ outcome = NoOutcome /\ rpc = "idle"
EngineIdle ==
    /\ baseline = 0 /\ rules = <<>> /\ violations = <<>> /\ project = "none"
    /\ members = 0 /\ depth = 0 /\ seen = <<>> /\ ri = 0 /\ pc = "idle"
    /\ result = NoResult
CycleIdle ==
    /\ graph = {} /\ max_depth = 0 /\ cycles = <<>> /\ cpc = "idle"
ProjIdle ==
    /\ pfiles = <<>> /\ module_rules = <<>> /\ project_rules = <<>>
    /\ pviolations = <<>> /\ fi = 0 /\ pj = 0 /\ applied = <<>>
    /\ poutcome = NoOutcome /\ ppc = "idle"
DepIdle ==
    /\ src_file = [logical_path |-> "", items |-> <<>>]
    /\ scan = [dependencies |-> <<>>, aliases |-> {}]
    /\ item_i = 0 /\ collected = <<>> /\ returned = <<>> /\ dpc = "idle"
NoFs == [dirs |-> {}, files |-> {}, manifests |-> {}]
ResolveIdle ==
    /\ file_path = <<>> /\ resolved = NoOutcome /\ res_pc = "idle"
DiscIdle ==
    /\ root_dir = <<>> /\ source_dirs = <<>> /\ sd_i = 0 /\ walked = {}
    /\ rust_files = <<>> /\ discovered = NoOutcome /\ dep_graph = {}
    /\ dis_pc = "idle"
DslIdle ==
    /\ bstate = "idle" /\ current_subject = <<>> /\ built = <<>> /\ calls = <<>>
    /\ dsl_rules = [module_rules |-> <<>>, project_rules |-> <<>>]
OrderIdle == iteration = <<>> /\ unified = {}
MoreIdle == filesystem = NoFs /\ ResolveIdle /\ DiscIdle /\ DslIdle /\ OrderIdle
ExtIdle == CycleIdle /\ ProjIdle /\ DepIdle /\ MoreIdle

InitIsChild ==
    /\ ic_impl \in {"builtin_rules", "rules"}
    /\ ic_self \in Receivers
    /\ ic_module \in ModuleNames
    /\ ic_result = "none"
    /\ RuleIdle /\ EngineIdle /\ ExtIdle

\* self.is_child_of(module) through builtin_rules::utils
CallIsChildOf ==
    /\ ic_impl = "builtin_rules" /\ ic_result = "none"
    /\ ic_result' = IsChildOf(ic_self, ic_module)
    /\ UNCHANGED <<ic_impl, ic_self, ic_module, ruleVars, engineVars, extVars>>

\* self.is_child_of(module) through rules::utils
CallRulesIsChildOf ==
    /\ ic_impl = "rules" /\ ic_result = "none"
    /\ ic_result' = RulesIsChildOf(ic_self, ic_module)
    /\ UNCHANGED <<ic_impl, ic_self, ic_module, ruleVars, engineVars, extVars>>

NextIsChild == CallIsChildOf \/ CallRulesIsChildOf
SpecIsChild == InitIsChild /\ [][NextIsChild]_vars

(***************************************************************************)
(* SpecRule: one built-in rule asked about, and applied to, one file.      *)
(***************************************************************************)
InitRule ==
    /\ file \in Files
    /\ rule \in Rules
    /\ applicable = "none" /\ outcome = NoOutcome /\ rpc = "new"
    /\ IcIdle /\ EngineIdle /\ ExtIdle

\* rule.is_applicable(&file)
CallIsApplicable ==
    /\ rpc = "new"
    /\ applicable' = RuleIsApplicable(rule, file)
    /\ rpc' = "asked"
    /\ UNCHANGED <<file, rule, outcome, icVars, engineVars, extVars>>

\* rule.apply(&file)
CallApply ==
    /\ rpc = "asked"
    /\ outcome' = RuleApply(rule, file)
    /\ rpc' = "applied"
    /\ UNCHANGED <<file, rule, applicable, icVars, engineVars, extVars>>

NextRule == CallIsApplicable \/ CallApply
SpecRule == InitRule /\ [][NextRule]_vars

(***************************************************************************)
(* Spec: Arkitect::ensure_that(project).with_baseline(n).complies_with(rules)*)
(* and the Engine run inside it.  The file system is the environment: each *)
(* directory entry and each workspace member is drawn when it is read.     *)
(***************************************************************************)
ProjectKinds == {"workspace", "crate", "invalid"}

\* the source files a run can discover
EngineFiles ==
    { [path |-> "/p/a/src/lib.rs", logical_path |-> "a", dependencies |-> <<"a::b", "ab">>],
      [path |-> "/p/a/src/b.rs", logical_path |-> "a::b", dependencies |-> <<"a", "b">>],
      [path |-> "/p/b/src/lib.rs", logical_path |-> "b", dependencies |-> <<"a">>] }

\* the rules a run can be given
EngineRules ==
    { [kind |-> "MayDependOn", subject |-> "a", list |-> <<"a::b">>],
      [kind |-> "MustNotDependOn", subject |-> "a", list |-> <<"b">>],
      [kind |-> "MayDependOn", subject |-> "a::b", list |-> <<"b">>],
      [kind |-> "MustNotDependOnAnything", subject |-> "a::b", list |-> <<"">>] }

\* Arkitect::ensure_that(project)
EnsureThat ==
    /\ project \in ProjectKinds
    /\ baseline = 0
    /\ pc = "ensured"

Init ==
    /\ EnsureThat
    /\ rules = <<>> /\ violations = <<>> /\ members = 0 /\ depth = 0
    /\ seen = <<>> /\ ri = 0 /\ result = NoResult
    /\ IcIdle /\ RuleIdle /\ ExtIdle

\* Arkitect::with_baseline(baseline)
WithBaseline ==
    /\ pc = "ensured"
    /\ \E n \in 0..MaxBaseline : baseline' = n
    /\ UNCHANGED <<project, rules, violations, members, depth, seen, ri, pc, result>>
    /\ UNCHANGED <<icVars, ruleVars, extVars>>

\* Arkitect::complies_with(rules), up to the branch of Engine::get_violations:
\* Engine::new, then is_workspace / is_crate on the project root
CompliesWith ==
    /\ pc = "ensured"
    /\ \E rs \in SeqsUpTo(EngineRules, MaxRules) : rules' = rs
    /\ violations' = <<>>
    /\ \/ /\ project = "workspace"
          /\ \E m \in 0..MaxMembers : members' = m
          /\ pc' = "workspace"
       \/ /\ project = "workspace"          \* Cargo.toml does not parse
          /\ members' = 0
          /\ pc' = "panicked"
       \/ /\ project = "crate"
          /\ members' = 0
          /\ pc' = "dir"
       \/ /\ project = "invalid"
          /\ members' = 0
          /\ pc' = "panicked"
    /\ depth' = (IF project = "crate" THEN 1 ELSE 0)
    /\ UNCHANGED <<project, baseline, seen, ri, result, icVars, ruleVars, extVars>>

\* Engine::validate_workspace: one turn of the loop over the members
ValidateWorkspace ==
    /\ pc = "workspace"
    /\ \/ /\ members > 0                    \* a directory holding a Cargo.toml
          /\ members' = members - 1
          /\ depth' = 1
          /\ pc' = "dir"
       \/ /\ members > 0                    \* not a directory, or not a crate
          /\ members' = members - 1
          /\ UNCHANGED <<depth, pc>>
       \/ /\ members = 0                    \* the loop is over
          /\ pc' = "returned"
          /\ UNCHANGED <<members, depth>>
    /\ UNCHANGED <<project, baseline, rules, violations, seen, ri, result>>
    /\ UNCHANGED <<icVars, ruleVars, extVars>>

\* Engine::validate_dir: one turn of the loop over the entries of the directory
ValidateDir ==
    /\ pc = "dir"
    /\ \/ /\ depth < MaxDepth               \* a directory: the recursive call
          /\ depth' = depth + 1
          /\ UNCHANGED <<seen, ri, pc>>
       \/ /\ UNCHANGED <<depth, seen, ri, pc>>     \* a file that is no .rs file
       \/ /\ Len(seen) < MaxFiles           \* a .rs file: apply_rules builds the RustFile
          /\ \E f \in EngineFiles :
                /\ \A i \in DOMAIN seen : seen[i].path # f.path
                /\ seen' = Append(seen, f)
          /\ ri' = 1
          /\ pc' = "rules"
          /\ UNCHANGED depth
       \/ /\ pc' = "panicked"               \* an unreadable entry or RustFile panics
          /\ UNCHANGED <<depth, seen, ri>>
       \/ /\ depth' = depth - 1             \* no entry left: the call returns
          /\ pc' = (IF depth > 1 THEN "dir"
                    ELSE IF project = "workspace" THEN "workspace" ELSE "returned")
          /\ UNCHANGED <<seen, ri>>
    /\ UNCHANGED <<project, baseline, rules, violations, members, result>>
    /\ UNCHANGED <<icVars, ruleVars, extVars>>

\* the file apply_rules is working on
CurrentFile == seen[Len(seen)]

\* apply_rules, the Err arm of the match: a violation that drops a message
\* already in the list
RuleViolatedOnce ==
    /\ pc = "rules" /\ ri <= Len(rules)
    /\ RuleIsApplicable(rules[ri], CurrentFile) = "true"
    /\ RuleApply(rules[ri], CurrentFile).kind = "Err"
    /\ LET e == RuleApply(rules[ri], CurrentFile).msg
       IN  violations' = (IF \E i \in DOMAIN violations : violations[i] = e
                          THEN violations ELSE Append(violations, e))
    /\ ri' = ri + 1
    /\ UNCHANGED <<project, baseline, rules, members, depth, seen, pc, result>>
    /\ UNCHANGED <<icVars, ruleVars, extVars>>

\* apply_rules, the else arm: rule.is_applicable(&file) is false
RuleNotApplied ==
    /\ pc = "rules" /\ ri <= Len(rules)
    /\ RuleIsApplicable(rules[ri], CurrentFile) = "false"
    /\ ri' = ri + 1
    /\ UNCHANGED <<project, baseline, rules, violations, members, depth, seen, pc,
                   result>>
    /\ UNCHANGED <<icVars, ruleVars, extVars>>

\* apply_rules, the Ok arm of the match
RuleRespected ==
    /\ pc = "rules" /\ ri <= Len(rules)
    /\ RuleIsApplicable(rules[ri], CurrentFile) = "true"
    /\ RuleApply(rules[ri], CurrentFile).kind = "Ok"
    /\ ri' = ri + 1
    /\ UNCHANGED <<project, baseline, rules, violations, members, depth, seen, pc,
                   result>>
    /\ UNCHANGED <<icVars, ruleVars, extVars>>

\* apply_rules, the Err arm of the match: self.violations.push(e)
RuleViolated ==
    /\ pc = "rules" /\ ri <= Len(rules)
    /\ RuleIsApplicable(rules[ri], CurrentFile) = "true"
    /\ RuleApply(rules[ri], CurrentFile).kind = "Err"
    /\ violations' = Append(violations, RuleApply(rules[ri], CurrentFile).msg)
    /\ ri' = ri + 1
    /\ UNCHANGED <<project, baseline, rules, members, depth, seen, pc, result>>
    /\ UNCHANGED <<icVars, ruleVars, extVars>>

\* apply_rules: is_applicable or apply panics
RulePanicked ==
    /\ pc = "rules" /\ ri <= Len(rules)
    /\ \/ RuleIsApplicable(rules[ri], CurrentFile) = "panic"
       \/ /\ RuleIsApplicable(rules[ri], CurrentFile) = "true"
          /\ RuleApply(rules[ri], CurrentFile).kind = "Panic"
    /\ pc' = "panicked"
    /\ UNCHANGED <<project, baseline, rules, violations, members, depth, seen, ri,
                   result>>
    /\ UNCHANGED <<icVars, ruleVars, extVars>>

\* apply_rules: the loop over the rules is over
ApplyRulesReturn ==
    /\ pc = "rules" /\ ri > Len(rules)
    /\ ri' = 0
    /\ pc' = "dir"
    /\ UNCHANGED <<project, baseline, rules, violations, members, depth, seen, result>>
    /\ UNCHANGED <<icVars, ruleVars, extVars>>

\* Engine::apply_rules: one turn of the loop over the rules
ApplyRules ==
    \/ RuleNotApplied
    \/ RuleRespected
    \/ RuleViolated
    \/ RulePanicked
    \/ ApplyRulesReturn

\* a comparison that leaves the baseline itself out
WithinBaselineStrict(n, b) == n < b

\* Arkitect::complies_with: violations.len() <= self.baseline
WithinBaseline(n, b) == n <= b

\* Arkitect::complies_with, after get_violations returned self.violations
CompliesWithReturn ==
    /\ pc = "returned"
    /\ result' = [kind |-> (IF WithinBaseline(Len(violations), baseline) THEN "Ok" ELSE "Err"),
                  violations |-> violations]
    /\ pc' = "done"
    /\ UNCHANGED <<project, baseline, rules, violations, members, depth, seen, ri>>
    /\ UNCHANGED <<icVars, ruleVars, extVars>>

Next ==
    \/ WithBaseline
    \/ CompliesWith
    \/ ValidateWorkspace
    \/ ValidateDir
    \/ ApplyRules
    \/ CompliesWithReturn

Spec == Init /\ [][Next]_vars

(***************************************************************************)
(* The specification's notion of descendant (section 4.1), stated on the   *)
(* segments of the two paths.                                              *)
(***************************************************************************)
\* position of the first "::" of s at or after i, 0 when there is none
RECURSIVE FindSep(_, _)
FindSep(s, i) ==
    IF i + 1 > Len(s) THEN 0
    ELSE IF SubSeq(s, i, i + 1) = "::" THEN i
    ELSE FindSep(s, i + 1)

\* the segments of a path: s.split("::")
RECURSIVE Segments(_)
Segments(s) ==
    LET j == FindSep(s, 1)
    IN  IF j = 0 THEN <<s>>
        ELSE <<SubSeq(s, 1, j - 1)>> \o Segments(SubSeq(s, j + 2, Len(s)))

\* A is a descendant of B: B's segments are the first segments of A
Descendant(A, B) ==
    LET a == Segments(A)
        b == Segments(B)
    IN  Len(b) <= Len(a) /\ SubSeq(a, 1, Len(b)) = b

\* a rule over logical paths: the subject and every list entry are non-empty
WellFormedRule(r) == r.subject # "" /\ \A i \in DOMAIN r.list : r.list[i] # ""

\* some entry of the list has d as a descendant
DescendantOfAny(d, list) == \E i \in DOMAIN list : Descendant(d, list[i])

\* the dependencies of f that are descendants neither of the subject nor of a list entry
OutsideSubjectAndList(r, f) ==
    LET Out(d) == ~Descendant(d, r.subject) /\ ~DescendantOfAny(d, r.list)
    IN  SelectSeq(f.dependencies, Out)

\* the dependencies of f that are descendants of a list entry
InsideList(r, f) ==
    LET In(d) == DescendantOfAny(d, r.list)
    IN  SelectSeq(f.dependencies, In)

\* Ok when nothing is forbidden, else Err with the message listing `forbidden`
Expected(forbidden, f) ==
    IF forbidden = <<>> THEN Ok ELSE Err(ForbiddenMessage(forbidden, f.path))

(***************************************************************************)
(* Claims about the rules and the descendant test.                         *)
(***************************************************************************)
\* C1: MayDependOnRule.apply reports exactly the dependencies that are descendants
\* neither of the subject nor of an allowed entry, in the file's order, with the
\* file's path; it returns Err iff there is one.  (The code decides "descendant"
\* with rules::utils::IsChild, a plain starts_with: see C6.)
C1_MayDependOnApply ==
    (rpc = "applied" /\ rule.kind = "MayDependOn" /\ WellFormedRule(rule))
        => outcome = Expected(OutsideSubjectAndList(rule, file), file)

\* C2: MustNotDependOnRule.apply reports exactly the dependencies that are
\* descendants of a forbidden entry, with no exemption for the subject; Err iff
\* there is one, otherwise Ok.
C2_MustNotDependOnApply ==
    (rpc = "applied" /\ rule.kind = "MustNotDependOn" /\ WellFormedRule(rule))
        => outcome = Expected(InsideList(rule, file), file)

\* C3: MustNotDependOnAnythingRule.apply: a dependency is forbidden iff it is not
\* (a descendant of the subject or a descendant of an allowed_external entry);
\* apply returns Ok iff no dependency is forbidden, and Err names the forbidden.
C3_MustNotDependOnAnythingApply ==
    (rpc = "applied" /\ rule.kind = "MustNotDependOnAnything" /\ WellFormedRule(rule))
        => /\ (outcome.kind = "Ok" <=> OutsideSubjectAndList(rule, file) = <<>>)
           /\ (outcome.kind = "Err" <=> OutsideSubjectAndList(rule, file) # <<>>)
           /\ outcome.msg = Expected(OutsideSubjectAndList(rule, file), file).msg

\* C3 witness: an applied rule that exempted an inner dependency, allowed an
\* external one by its list and still reported another
C3_Witness ==
    /\ rpc = "applied" /\ rule.kind = "MustNotDependOnAnything" /\ WellFormedRule(rule)
    /\ outcome.kind = "Err"
    /\ \E i \in DOMAIN file.dependencies : Descendant(file.dependencies[i], rule.subject)
    /\ \E i \in DOMAIN file.dependencies :
          /\ ~Descendant(file.dependencies[i], rule.subject)
          /\ DescendantOfAny(file.dependencies[i], rule.list)

\* C4: for each of the three built-in rules is_applicable(file) is true iff the
\* file's logical path is a descendant of the subject, and depends on nothing else.
C4_IsApplicable ==
    (rpc # "new" /\ WellFormedRule(rule))
        => applicable = Bool(Descendant(file.logical_path, rule.subject))

\* C5: through builtin_rules::utils, A.is_child_of(B) with B non-empty is true iff A
\* equals B or A begins with B followed by "::"; so it holds of (A, A), it implies
\* that A starts with B, and a prefix that ends inside a segment is no descendant.
C5_IsChildOf ==
    (ic_impl = "builtin_rules" /\ ic_result # "none" /\ ic_module # "")
        => /\ ic_result = Bool(Descendant(ic_self, ic_module))
           /\ (ic_result = "true"
                 <=> (ic_self = ic_module \/ StartsWith(ic_self, ic_module \o "::")))
           /\ (ic_self = ic_module => ic_result = "true")
           /\ (ic_result = "true" => StartsWith(ic_self, ic_module))
           /\ (ic_self = "ab" /\ ic_module = "a" => ic_result = "false")

\* C5 witness: a call whose receiver starts with the module but is no descendant
C5_Witness ==
    /\ ic_impl = "builtin_rules" /\ ic_result = "false" /\ ic_module # ""
    /\ StartsWith(ic_self, ic_module)

\* C6: in MayDependOnRule and MustNotDependOnRule matching is segment-wise: the
\* rule is applicable only to descendants of the subject, an allowed entry allows
\* only its descendants, a forbidden entry forbids only its descendants.
C6_SegmentWise ==
    (rule.kind \in {"MayDependOn", "MustNotDependOn"} /\ WellFormedRule(rule))
        => /\ (rpc # "new" /\ applicable = "true"
                 => Descendant(file.logical_path, rule.subject))
           /\ (rpc = "applied" /\ rule.kind = "MayDependOn"
                 /\ OutsideSubjectAndList(rule, file) # <<>>
                 => outcome.kind = "Err")
           /\ (rpc = "applied" /\ rule.kind = "MustNotDependOn" /\ outcome.kind = "Err"
                 => InsideList(rule, file) # <<>>)

\* C7: a descendant query with an empty ancestor is rejected: is_child_of("")
\* panics, whichever built-in rule asks.
C7_EmptyModuleRejected ==
    (ic_result # "none" /\ ic_module = "") => ic_result = "panic"

(***************************************************************************)
(* Claims about the engine and the Arkitect wrapper.                       *)
(***************************************************************************)
\* the engine is inside apply_rules, about to handle rules[ri] for CurrentFile
AtRule == pc = "rules" /\ ri <= Len(rules)

\* C8 as stated: for MayDependOnRule, a file whose logical path is a descendant of
\* an allowed entry finds the rule not applicable and gets no violation from it.
C8_AllowedNotApplicable ==
    [][(AtRule /\ rules[ri].kind = "MayDependOn"
          /\ DescendantOfAny(CurrentFile.logical_path, rules[ri].list))
        => (RuleIsApplicable(rules[ri], CurrentFile) = "false"
              /\ violations' = violations)]_vars

\* C8 amended: for MayDependOnRule, a file whose logical path is a descendant of an
\* allowed entry and does not start with the rule's subject finds the rule not
\* applicable, and the engine appends no violation for it.
C8_AllowedOutsideSubject ==
    [][(AtRule /\ rules[ri].kind = "MayDependOn"
          /\ DescendantOfAny(CurrentFile.logical_path, rules[ri].list)
          /\ ~StartsWith(CurrentFile.logical_path, rules[ri].subject))
        => (RuleIsApplicable(rules[ri], CurrentFile) = "false"
              /\ violations' = violations /\ pc' = "rules" /\ ri' = ri + 1)]_vars

\* C8 witness: the engine has just passed such a rule, whose apply would have
\* returned Err for the file
C8_Witness ==
    /\ pc = "rules" /\ ri > 1
    /\ rules[ri - 1].kind = "MayDependOn"
    /\ DescendantOfAny(CurrentFile.logical_path, rules[ri - 1].list)
    /\ ~StartsWith(CurrentFile.logical_path, rules[ri - 1].subject)
    /\ RuleApply(rules[ri - 1], CurrentFile).kind = "Err"
    /\ violations = <<>>

\* the messages of the rules of rs, in order, that are applicable to f and whose
\* apply returns Err
RECURSIVE MessagesOf(_, _)
MessagesOf(f, rs) ==
    IF rs = <<>> THEN <<>>
    ELSE (IF RuleIsApplicable(Head(rs), f) = "true" /\ RuleApply(Head(rs), f).kind = "Err"
          THEN <<RuleApply(Head(rs), f).msg>> ELSE <<>>)
         \o MessagesOf(f, Tail(rs))

\* those of every file of fs, file first and rule second
RECURSIVE MessagesOfAll(_, _)
MessagesOfAll(fs, rs) ==
    IF fs = <<>> THEN <<>>
    ELSE MessagesOf(Head(fs), rs) \o MessagesOfAll(Tail(fs), rs)

\* what the list must hold: every pair handled so far
ExpectedViolations ==
    IF ri = 0 THEN MessagesOfAll(seen, rules)
    ELSE MessagesOfAll(SubSeq(seen, 1, Len(seen) - 1), rules)
            \o MessagesOf(CurrentFile, SubSeq(rules, 1, ri - 1))

\* C9: at every point of a run the violation list is exactly the messages, file
\* first and rule second, of the pairs handled so far whose rule is applicable and
\* whose apply is Err (nothing removed, reordered or deduplicated); the run ends
\* only when every loop is exhausted, and inside the rule loop only a panic, never
\* a violation or a non-applicable rule, stops it.
C9_Accumulation ==
    /\ [](/\ pc \in {"workspace", "dir", "rules", "returned", "done", "panicked"}
                => violations = ExpectedViolations
          /\ pc \in {"returned", "done"} => (ri = 0 /\ depth = 0 /\ members = 0)
          /\ (pc = "panicked" /\ ri > 0)
                => \/ RuleIsApplicable(rules[ri], CurrentFile) = "panic"
                   \/ /\ RuleIsApplicable(rules[ri], CurrentFile) = "true"
                      /\ RuleApply(rules[ri], CurrentFile).kind = "Panic")
    /\ [][\/ violations' = violations
          \/ /\ AtRule
             /\ RuleIsApplicable(rules[ri], CurrentFile) = "true"
             /\ RuleApply(rules[ri], CurrentFile).kind = "Err"
             /\ violations' = Append(violations, RuleApply(rules[ri], CurrentFile).msg)
             /\ pc' = "rules" /\ ri' = ri + 1]_vars

\* C9 witness: a finished run over two files whose list repeats a message, with a
\* rule that was not applicable to one of the files
C9_Witness ==
    /\ pc = "done" /\ Len(seen) = 2
    /\ \E i, j \in DOMAIN violations : i < j /\ violations[i] = violations[j]
    /\ \E i \in DOMAIN seen : \E j \in DOMAIN rules :
          RuleIsApplicable(rules[j], seen[i]) = "false"

\* C10: ensure_that sets the baseline to 0; with_baseline changes only the
\* baseline; complies_with returns Ok(violations) iff violations.len() <= baseline
\* and Err(violations) otherwise, the payload being the engine's list unmodified.
C10_Baseline ==
    /\ (pc = "ensured" /\ baseline = 0)
    /\ [](pc = "done" =>
            /\ result.violations = violations
            /\ (result.kind = "Ok" <=> Len(violations) <= baseline)
            /\ (result.kind = "Err" <=> Len(violations) > baseline))
    /\ [][(pc = "ensured" /\ pc' = "ensured")
            => UNCHANGED <<project, rules, violations, members, depth, seen, ri, result>>]_vars
    /\ [][pc # "ensured" => baseline' = baseline]_vars

\* C10 witness: a run that returned Ok with as many violations as a non-zero baseline
C10_Witness ==
    /\ pc = "done" /\ result.kind = "Ok"
    /\ baseline > 0 /\ Len(result.violations) = baseline

(***************************************************************************)
(* The project rule MustNotHaveCircularDependencies: truncation of the     *)
(* graph, Tarjan's strongly connected components, one cycle per component. *)
(* A HashMap<String, Vec<String>> is a set of entries <<node, deps>> with  *)
(* distinct nodes; the code's vector positions 0..n-1 are 1..n here.       *)
(***************************************************************************)
\* most dependencies an entry of a drawn graph has
MaxEdges == 2
\* largest truncation depth drawn
MaxTruncation == 2

CycleNames == {"a", "a::x", "b", "b::y"}
\* the depths drawn: none of a path kept, one segment kept, the largest
Depths == {0, 1, MaxTruncation}

Keys(g) == {e[1] : e \in g}
Get(g, n) == (CHOOSE e \in g : e[1] = n)[2]

\* the byte of a character of a module path
ByteOf(c) ==
    CASE c = ":" -> 58
      [] c = "a" -> 97
      [] c = "b" -> 98
      [] c = "x" -> 120
      [] c = "y" -> 121

\* s < t in the order of str: byte-wise lexicographic
RECURSIVE StrLess(_, _)
StrLess(s, t) ==
    IF t = "" THEN FALSE
    ELSE IF s = "" THEN TRUE
    ELSE LET a == ByteOf(SubSeq(s, 1, 1))
             b == ByteOf(SubSeq(t, 1, 1))
         IN  IF a # b THEN a < b
             ELSE StrLess(SubSeq(s, 2, Len(s)), SubSeq(t, 2, Len(t)))

\* sort() followed by dedup(): the distinct strings of S in ascending order
RECURSIVE SortDedup(_)
SortDedup(S) ==
    IF S = {} THEN <<>>
    ELSE LET m == CHOOSE x \in S : \A y \in S \ {x} : StrLess(x, y)
         IN  <<m>> \o SortDedup(S \ {m})

Range(q) == {q[i] : i \in DOMAIN q}

\* a variant that keeps one segment more
UnifySubmodulesOneMore(node, d) ==
    LET parts == Segments(node)
    IN  IF Len(parts) <= d + 1 THEN node ELSE Join(SubSeq(parts, 1, d + 1), "::")

\* unify_submodules(node, max_depth)
UnifySubmodules(node, d) ==
    LET parts == Segments(node)
    IN  IF Len(parts) <= d THEN node ELSE Join(SubSeq(parts, 1, d), "::")

\* unify_submodules_in_graph: the entries of nodes that truncate to the same
\* node are extended into one vector in the map's iteration order, every
\* dependency becomes a node, and each vector is sorted and deduplicated, so
\* that the iteration order leaves no trace
UnifySubmodulesInGraph(original_graph, d) ==
    LET unified_deps(u) ==
            {UnifySubmodules(dep, d) :
                dep \in UNION {Range(e[2]) : e \in {x \in original_graph :
                                                 UnifySubmodules(x[1], d) = u}}}
        sources == {UnifySubmodules(n, d) : n \in Keys(original_graph)}
        all_deps == UNION {unified_deps(u) : u \in sources}
    IN  {<<u, SortDedup(unified_deps(u))>> : u \in sources}
          \cup {<<n, <<>>>> : n \in all_deps \ sources}

\* node_index[n]: the position of n in the sorted nodes
IndexOf(nodes, n) == CHOOSE i \in DOMAIN nodes : nodes[i] = n

\* build_adjacency_list
BuildAdjacencyList(g, nodes) ==
    [i \in DOMAIN nodes |->
        LET deps == Get(g, nodes[i])
        IN  [k \in DOMAIN deps |-> IndexOf(nodes, deps[k])]]

Min(a, b) == IF a <= b THEN a ELSE b
Contains(q, x) == \E i \in DOMAIN q : q[i] = x

\* the loop at the end of strongconnect that pops one component off the stack
RECURSIVE PopScc(_, _, _)
PopScc(v, st, scc) ==
    LET w == st.stack[Len(st.stack)]
        st1 == [st EXCEPT !.stack = SubSeq(@, 1, Len(@) - 1), !.in_stack[w] = FALSE]
        scc1 == Append(scc, w)
    IN  IF w = v THEN [st1 EXCEPT !.sccs = Append(@, scc1)]
        ELSE PopScc(v, st1, scc1)

RECURSIVE StrongConnect(_, _, _)
RECURSIVE VisitSuccessors(_, _, _, _)
\* strongconnect(v, ...)
StrongConnect(v, st, adjacency_list) ==
    LET st1 == [st EXCEPT !.index = @ + 1,
                          !.indices[v] = st.index + 1,
                          !.lowlink[v] = st.index + 1,
                          !.stack = Append(@, v),
                          !.in_stack[v] = TRUE]
        st2 == VisitSuccessors(v, 1, st1, adjacency_list)
    IN  IF st2.lowlink[v] = st2.indices[v] THEN PopScc(v, st2, <<>>) ELSE st2

\* the for loop of strongconnect over adjacency_list[v], from position i on
VisitSuccessors(v, i, st, adjacency_list) ==
    IF i > Len(adjacency_list[v]) THEN st
    ELSE LET w == adjacency_list[v][i]
         IN  IF st.indices[w] = -1
             THEN LET s == StrongConnect(w, st, adjacency_list)
                  IN  VisitSuccessors(v, i + 1,
                          [s EXCEPT !.lowlink[v] = Min(@, s.lowlink[w])],
                          adjacency_list)
             ELSE IF st.in_stack[w]
             THEN VisitSuccessors(v, i + 1,
                      [st EXCEPT !.lowlink[v] = Min(@, st.indices[w])],
                      adjacency_list)
             ELSE VisitSuccessors(v, i + 1, st, adjacency_list)

\* the loop of tarjan_scc over the vertices, from v on
RECURSIVE TarjanFrom(_, _, _)
TarjanFrom(v, st, adjacency_list) ==
    IF v > Len(adjacency_list) THEN st
    ELSE TarjanFrom(v + 1,
                    IF st.indices[v] = -1 THEN StrongConnect(v, st, adjacency_list)
                    ELSE st,
                    adjacency_list)

\* tarjan_scc
TarjanScc(adjacency_list) ==
    LET V == DOMAIN adjacency_list
        st0 == [index |-> 0, stack |-> <<>>, in_stack |-> [v \in V |-> FALSE],
                indices |-> [v \in V |-> -1], lowlink |-> [v \in V |-> -1],
                sccs |-> <<>>]
    IN  TarjanFrom(1, st0, adjacency_list).sccs

\* a variant of translate_cycle_to_names that does not close the path
TranslateOpenPathToNames(path, nodes) ==
    IF path = <<>> THEN ""
    ELSE Join([i \in 1..Len(path) |-> nodes[path[i]]], " -> ")

\* translate_cycle_to_names
TranslateCycleToNames(path, nodes) ==
    IF path = <<>> THEN ""
    ELSE Join([i \in 1..(Len(path) + 1) |->
                  IF i <= Len(path) THEN nodes[path[i]] ELSE nodes[path[1]]], " -> ")

RECURSIVE DfsCycleReconstruct(_, _, _, _, _, _, _)
RECURSIVE DfsSuccessors(_, _, _, _, _, _, _, _)
\* dfs_cycle_reconstruct: the Option it returns, with path and visited as the
\* call leaves them
DfsCycleReconstruct(current, start, adjacency_list, scc_set, path, visited, nodes) ==
    DfsSuccessors(current, 1, start, adjacency_list, scc_set,
                  Append(path, current), visited \cup {current}, nodes)

\* the for loop of dfs_cycle_reconstruct over adjacency_list[current], from i on
DfsSuccessors(current, i, start, adjacency_list, scc_set, path, visited, nodes) ==
    IF i > Len(adjacency_list[current])
    THEN [some |-> FALSE, cycle |-> "",
          path |-> SubSeq(path, 1, Len(path) - 1), visited |-> visited]
    ELSE LET next == adjacency_list[current][i]
         IN  IF next \notin scc_set
             THEN DfsSuccessors(current, i + 1, start, adjacency_list, scc_set,
                                path, visited, nodes)
             ELSE IF next = start /\ Len(path) > 1
             THEN [some |-> TRUE, cycle |-> TranslateCycleToNames(path, nodes),
                   path |-> path, visited |-> visited]
             ELSE IF next \notin visited
             THEN LET r == DfsCycleReconstruct(next, start, adjacency_list, scc_set,
                                               path, visited, nodes)
                  IN  IF r.some THEN r
                      ELSE DfsSuccessors(current, i + 1, start, adjacency_list,
                                         scc_set, r.path, r.visited, nodes)
             ELSE DfsSuccessors(current, i + 1, start, adjacency_list, scc_set,
                                path, visited, nodes)

\* reconstruct_cycle_path
ReconstructCyclePath(scc, nodes, adjacency_list) ==
    IF Len(scc) = 1 /\ Contains(adjacency_list[scc[1]], scc[1])
    THEN IF Len(adjacency_list[scc[1]]) = 1 THEN ""
         ELSE nodes[scc[1]] \o " -> " \o nodes[scc[1]]
    ELSE LET r == DfsCycleReconstruct(scc[1], scc[1], adjacency_list, Range(scc),
                                      <<>>, {}, nodes)
         IN  IF r.some THEN r.cycle ELSE ""

\* a variant that reports every node that is alone in its component
SingleNodeCyclesAlways(only_node, nodes, adjacency_list) ==
    <<nodes[only_node] \o " -> " \o nodes[only_node]>>

\* a variant that reports every node that has an edge to itself
SingleNodeCyclesAnySelfEdge(only_node, nodes, adjacency_list) ==
    IF Contains(adjacency_list[only_node], only_node)
    THEN <<nodes[only_node] \o " -> " \o nodes[only_node]>>
    ELSE <<>>

\* the cycle path a node that is alone in its component yields, when it has an
\* edge to itself and its adjacency list has more than one entry
SingleNodeCycles(only_node, nodes, adjacency_list) ==
    IF /\ Contains(adjacency_list[only_node], only_node)
       /\ Len(adjacency_list[only_node]) > 1
    THEN <<nodes[only_node] \o " -> " \o nodes[only_node]>>
    ELSE <<>>

\* the loop of find_all_cycles_in_dependencies over the components, from i on
RECURSIVE CyclesOfSccs(_, _, _, _)
CyclesOfSccs(sccs, i, nodes, adjacency_list) ==
    IF i > Len(sccs) THEN <<>>
    ELSE LET scc == sccs[i]
             here == IF Len(scc) > 1
                     THEN <<ReconstructCyclePath(scc, nodes, adjacency_list)>>
                     ELSE SingleNodeCycles(scc[1], nodes, adjacency_list)
         IN  here \o CyclesOfSccs(sccs, i + 1, nodes, adjacency_list)

\* find_all_cycles_in_dependencies(graph, max_depth)
FindAllCyclesInDependencies(g, d) ==
    LET unified_graph == UnifySubmodulesInGraph(g, d)
        nodes == SortDedup(Keys(unified_graph))
        adjacency_list == BuildAdjacencyList(unified_graph, nodes)
        sccs == TarjanScc(adjacency_list)
    IN  CyclesOfSccs(sccs, 1, nodes, adjacency_list)

(***************************************************************************)
(* SpecCycles: one call of find_all_cycles_in_dependencies on a drawn      *)
(* graph and a drawn depth.                                                *)
(***************************************************************************)
\* a dependency vector: the names of a set of at most MaxEdges names, here in
\* descending order
RECURSIVE Descending(_)
Descending(S) ==
    IF S = {} THEN <<>>
    ELSE LET m == CHOOSE x \in S : \A y \in S \ {x} : StrLess(y, x)
         IN  <<m>> \o Descending(S \ {m})

DepLists == {Descending(S) : S \in {T \in SUBSET CycleNames : Cardinality(T) <= MaxEdges}}

\* any set of the names as nodes, each with a dependency vector
InitCycles ==
    /\ \E K \in SUBSET CycleNames : \E f \in [K -> DepLists] :
          graph = {<<k, f[k]>> : k \in K}
    /\ max_depth \in Depths
    /\ cycles = <<>> /\ cpc = "new"
    /\ IcIdle /\ RuleIdle /\ EngineIdle /\ MoreIdle /\ ProjIdle /\ DepIdle

\* find_all_cycles_in_dependencies(&graph, max_depth)
CallFindAllCycles ==
    /\ cpc = "new"
    /\ cycles' = FindAllCyclesInDependencies(graph, max_depth)
    /\ cpc' = "found"
    /\ UNCHANGED <<graph, max_depth, icVars, ruleVars, engineVars, moreVars, projVars,
                   depVars>>

NextCycles == CallFindAllCycles
SpecCycles == InitCycles /\ [][NextCycles]_vars

(***************************************************************************)
(* The graphs the claims on cycle detection speak of, stated on sets of    *)
(* edges, independently of the vectors and indices of the code.            *)
(***************************************************************************)
\* the first d segments of a path, the whole path when it has no more than d
Truncated(p, d) ==
    LET segs == Segments(p)
    IN  IF d = 0 THEN ""
        ELSE IF Len(segs) <= d THEN p
        ELSE Join([i \in 1..d |-> segs[i]], "::")

\* the edges of a graph, and the edges of its truncation to depth d
OriginalEdges(g) == UNION {{<<e[1], x>> : x \in Range(e[2])} : e \in g}
TruncatedEdges(g, d) == {<<Truncated(e[1], d), Truncated(e[2], d)>> : e \in OriginalEdges(g)}
TruncatedNodes(g, d) ==
    {Truncated(n, d) : n \in Keys(g)} \cup {e[2] : e \in TruncatedEdges(g, d)}

\* the pairs joined by a path of at least one edge
RECURSIVE PathsOf(_)
PathsOf(E) ==
    LET step == E \cup {<<p[1][1], p[2][2]>> : p \in {q \in E \X E : q[1][2] = q[2][1]}}
    IN  IF step = E THEN E ELSE PathsOf(step)

Acyclic(E) == \A p \in PathsOf(E) : p[1] # p[2]
NoSelfEdges(E) == {e \in E : e[1] # e[2]}

\* the strongly connected components of the graph with nodes N and edges E
ComponentsOf(N, E) ==
    LET P == PathsOf(E)
    IN  {{m \in N : m = n \/ (<<n, m>> \in P /\ <<m, n>> \in P)} : n \in N}

\* the nodes of an entry "N1 -> N2 -> ... -> N1", in order
RECURSIVE FindArrow(_, _)
FindArrow(s, i) ==
    IF i + 3 > Len(s) THEN 0
    ELSE IF SubSeq(s, i, i + 3) = " -> " THEN i
    ELSE FindArrow(s, i + 1)
RECURSIVE NodesOfEntry(_)
NodesOfEntry(s) ==
    LET j == FindArrow(s, 1)
    IN  IF j = 0 THEN <<s>>
        ELSE <<SubSeq(s, 1, j - 1)>> \o NodesOfEntry(SubSeq(s, j + 4, Len(s)))

\* the positions of the result whose entry names a node of C
EntriesOn(C) == {i \in DOMAIN cycles : Range(NodesOfEntry(cycles[i])) \cap C # {}}

Found == cpc = "found"
TE == TruncatedEdges(graph, max_depth)
TN == TruncatedNodes(graph, max_depth)

\* C11 (as stated): on a graph whose edges over the original module paths are
\* acyclic, find_all_cycles_in_dependencies returns no cycle for every
\* max_depth >= 1.
C11_DagNoCycles ==
    (Found /\ max_depth >= 1 /\ Acyclic(OriginalEdges(graph))) => cycles = <<>>

\* C11 (amended): on a graph whose truncation to max_depth is acyclic,
\* find_all_cycles_in_dependencies returns no cycle; this holds in particular
\* for an acyclic graph none of whose paths has more than max_depth segments.
C11_TruncatedDagNoCycles ==
    (Found /\ Acyclic(TE)) => cycles = <<>>

\* an acyclic truncated graph with an edge that leaves a truncated path, on
\* which the call returned no cycle
C11_Witness ==
    /\ Found /\ max_depth >= 1 /\ Acyclic(TE)
    /\ \E e \in OriginalEdges(graph) :
          Truncated(e[1], max_depth) # e[1] /\ Truncated(e[2], max_depth) # e[2]
    /\ cycles = <<>>

\* q is a cycle of the component C over the edges E: it ends where it starts,
\* each step is an edge, it stays in C and repeats no node but its endpoint
WellFormedCycle(q, C, E) ==
    /\ Len(q) >= 2 /\ q[1] = q[Len(q)]
    /\ \A i \in 1..(Len(q) - 1) : <<q[i], q[i + 1]>> \in E
    /\ Range(q) \subseteq C
    /\ \A i, j \in 1..(Len(q) - 1) : q[i] = q[j] => i = j

\* C12: each strongly connected component of more than one node of the
\* truncated graph has exactly one entry in the result, and that entry is a
\* well-formed cycle N1 -> ... -> Nk -> N1 of the component; no entry N -> N
\* is added for a member that has an edge to itself.
C12_OneCyclePerComponent ==
    Found => \A C \in ComponentsOf(TN, TE) :
                Cardinality(C) > 1 =>
                    /\ Cardinality(EntriesOn(C)) = 1
                    /\ \A i \in EntriesOn(C) : WellFormedCycle(NodesOfEntry(cycles[i]), C, TE)

\* two components of two nodes each, one of them with a member that has an
\* edge to itself, and two entries returned
C12_Witness ==
    /\ Found /\ Len(cycles) = 2
    /\ \E C, D \in ComponentsOf(TN, TE) :
          /\ C # D /\ Cardinality(C) = 2 /\ Cardinality(D) = 2
          /\ \E n \in C : <<n, n>> \in TE

\* C13: a component {N} of one node yields the entry N -> N iff N has an edge
\* to itself and an edge to another node; otherwise no entry names N.
C13_SingleNodeComponent ==
    Found => \A C \in ComponentsOf(TN, TE) :
                Cardinality(C) = 1 =>
                    LET N == CHOOSE n \in C : TRUE
                    IN  IF <<N, N>> \in TE /\ \E e \in TE : e[1] = N /\ e[2] # N
                        THEN /\ Cardinality(EntriesOn(C)) = 1
                             /\ \A i \in EntriesOn(C) : cycles[i] = N \o " -> " \o N
                        ELSE EntriesOn(C) = {}

\* a node alone in its component with an edge to itself and one to another
\* node is reported, next to a node whose only edge is to itself and is not
C13_Witness ==
    /\ Found
    /\ \E N, M \in TN :
          /\ N # M
          /\ {e \in TE : e[1] = N} = {<<N, N>>, <<N, M>>}
          /\ {e \in TE : e[1] = M} = {<<M, M>>}
          /\ cycles = <<N \o " -> " \o N>>

\* C14 (as stated): when the truncated graph without its self-edges is
\* acyclic, find_all_cycles_in_dependencies returns no cycle.
C14_SelfEdgesAreNoCycle ==
    (Found /\ Acyclic(NoSelfEdges(TE))) => cycles = <<>>

(***************************************************************************)
(* SpecProject: an engine run over a parsed project with module rules and  *)
(* project rules (section 4.9): first every module rule on every file, then*)
(* every project rule on the whole project.                                *)
(***************************************************************************)
\* most files of a drawn project
MaxProjectFiles == 3
\* most project rules of a drawn rule set
MaxProjectRules == 2

\* the files projects are made of; two of them share a logical path
ProjectFiles ==
    { [path |-> "/p/src/a.rs", logical_path |-> "a", dependencies |-> <<"b">>],
      [path |-> "/p/src/a/mod.rs", logical_path |-> "a", dependencies |-> <<"a::x">>],
      [path |-> "/p/src/b.rs", logical_path |-> "b", dependencies |-> <<"a">>],
      [path |-> "/p/src/a/x.rs", logical_path |-> "a::x",
       dependencies |-> <<"a::x::y", "b">>] }

\* the module rules rule sets are made of
ProjectModuleRules ==
    { [kind |-> "MustNotDependOn", subject |-> "a", list |-> <<"b">>],
      [kind |-> "MayDependOn", subject |-> "b", list |-> <<"a">>] }

\* RustProject::to_dependency_graph: insert replaces the entry of an equal key
RECURSIVE ToDependencyGraph(_)
ToDependencyGraph(files) ==
    IF files = <<>> THEN {}
    ELSE LET f == files[Len(files)]
             before == ToDependencyGraph(SubSeq(files, 1, Len(files) - 1))
         IN  {e \in before : e[1] # f.logical_path}
               \cup {<<f.logical_path, f.dependencies>>}

\* a variant of apply that joins the cycles on one line
ApplyOnOneLine(d, files) ==
    LET found == FindAllCyclesInDependencies(ToDependencyGraph(files), d)
    IN  IF found # <<>>
        THEN Err("Circular dependencies detected:\n" \o Join(found, ", "))
        ELSE Ok

\* MustNotHaveCircularDependencies { max_depth: d }.apply(project)
MustNotHaveCircularDependenciesApply(d, files) ==
    LET found == FindAllCyclesInDependencies(ToDependencyGraph(files), d)
    IN  IF found # <<>>
        THEN Err("Circular dependencies detected:\n" \o Join(found, "\n"))
        ELSE Ok

\* position of the first occurrence of sep in s at or after i, 0 when none
RECURSIVE FindStr(_, _, _)
FindStr(s, sep, i) ==
    IF i + Len(sep) - 1 > Len(s) THEN 0
    ELSE IF SubSeq(s, i, i + Len(sep) - 1) = sep THEN i
    ELSE FindStr(s, sep, i + 1)

\* s.split(sep)
RECURSIVE SplitOn(_, _)
SplitOn(s, sep) ==
    LET j == FindStr(s, sep, 1)
    IN  IF j = 0 THEN <<s>>
        ELSE <<SubSeq(s, 1, j - 1)>> \o SplitOn(SubSeq(s, j + Len(sep), Len(s)), sep)

\* the entries the engine appends for the result of a project rule: the lines
\* of the violation text below its heading, one per cycle
ProjectViolationEntries(r) ==
    IF r.kind = "Err" THEN Tail(SplitOn(r.msg, "\n")) ELSE <<>>

\* the messages of the module rules rs, in order, on the file f
RECURSIVE ModuleViolations(_, _)
ModuleViolations(f, rs) ==
    IF rs = <<>> THEN <<>>
    ELSE LET r == Head(rs)
             here == IF RuleIsApplicable(r, f) = "true" /\ RuleApply(r, f).kind = "Err"
                     THEN <<RuleApply(r, f).msg>> ELSE <<>>
         IN  here \o ModuleViolations(f, Tail(rs))

InitProject ==
    /\ pfiles \in InjSeqsUpTo(ProjectFiles, MaxProjectFiles)
    /\ module_rules \in InjSeqsUpTo(ProjectModuleRules, MaxRules)
    /\ project_rules \in SeqsUpTo(Depths \ {0}, MaxProjectRules)
    /\ pviolations = <<>> /\ fi = 1 /\ pj = 1
    /\ applied = [j \in DOMAIN project_rules |-> 0]
    /\ poutcome = NoOutcome
    /\ ppc = "modules"
    /\ IcIdle /\ RuleIdle /\ EngineIdle /\ MoreIdle /\ CycleIdle /\ DepIdle

\* step 1, one file: every module rule in declared order
ApplyModuleRules ==
    /\ ppc = "modules" /\ fi <= Len(pfiles)
    /\ pviolations' = pviolations \o ModuleViolations(pfiles[fi], module_rules)
    /\ fi' = fi + 1
    /\ UNCHANGED <<pfiles, module_rules, project_rules, pj, applied, poutcome, ppc>>
    /\ UNCHANGED <<icVars, ruleVars, engineVars, moreVars, cycleVars, depVars>>

\* step 1 is over: every file has been visited
ModuleRulesDone ==
    /\ ppc = "modules" /\ fi > Len(pfiles)
    /\ ppc' = "project"
    /\ UNCHANGED <<pfiles, module_rules, project_rules, pviolations, fi, pj, applied,
                   poutcome>>
    /\ UNCHANGED <<icVars, ruleVars, engineVars, moreVars, cycleVars, depVars>>

\* step 2, one project rule: apply(project), its text split into entries
ApplyProjectRule ==
    /\ ppc = "project" /\ pj <= Len(project_rules)
    /\ poutcome' = MustNotHaveCircularDependenciesApply(project_rules[pj], pfiles)
    /\ pviolations' = pviolations \o ProjectViolationEntries(poutcome')
    /\ applied' = [applied EXCEPT ![pj] = @ + 1]
    /\ pj' = pj + 1
    /\ UNCHANGED <<pfiles, module_rules, project_rules, fi, ppc>>
    /\ UNCHANGED <<icVars, ruleVars, engineVars, moreVars, cycleVars, depVars>>

\* step 3: the accumulated violations are returned
ComputeViolationsReturn ==
    /\ ppc = "project" /\ pj > Len(project_rules)
    /\ ppc' = "done"
    /\ UNCHANGED <<pfiles, module_rules, project_rules, pviolations, fi, pj, applied,
                   poutcome>>
    /\ UNCHANGED <<icVars, ruleVars, engineVars, moreVars, cycleVars, depVars>>

NextProject ==
    \/ ApplyModuleRules
    \/ ModuleRulesDone
    \/ ApplyProjectRule
    \/ ComputeViolationsReturn
SpecProject == InitProject /\ [][NextProject]_vars

\* the whole-project dependency graph: logical path -> dependency list, the
\* last file of a logical path giving its list
WholeProjectGraph(files) ==
    {<<files[i].logical_path, files[i].dependencies>> :
        i \in {k \in DOMAIN files :
                  \A l \in DOMAIN files : files[l].logical_path = files[k].logical_path
                                             => l <= k}}

\* the cycles the project rules 1..n find, rule after rule
RECURSIVE CyclesOfRules(_)
CyclesOfRules(n) ==
    IF n = 0 THEN <<>>
    ELSE CyclesOfRules(n - 1)
           \o FindAllCyclesInDependencies(WholeProjectGraph(pfiles), project_rules[n])

\* the cycles the project rule applied last finds
LastCycles == FindAllCyclesInDependencies(WholeProjectGraph(pfiles), project_rules[pj - 1])

\* C15: in a run the violations of the module rules of every file come before
\* those of the project rules; each project rule is applied exactly once, on the
\* whole-project graph; apply returns Ok iff find_all_cycles_in_dependencies
\* finds no cycle, and otherwise a text with one line per cycle below its
\* heading, which the engine turns into one entry per cycle.
C15_ProjectRuleStep ==
    /\ [](pviolations = MessagesOfAll(SubSeq(pfiles, 1, fi - 1), module_rules)
                          \o CyclesOfRules(pj - 1))
    /\ [](pj > 1 => fi = Len(pfiles) + 1)
    /\ [](\A j \in DOMAIN applied :
             applied[j] = IF j < pj THEN 1 ELSE 0)
    /\ [](ppc = "done" => pj = Len(project_rules) + 1)
    /\ [](pj > 1 =>
            /\ poutcome.kind = "Ok" <=> LastCycles = <<>>
            /\ poutcome.kind = "Err" <=> LastCycles # <<>>
            /\ poutcome.kind = "Err" =>
                  /\ Head(SplitOn(poutcome.msg, "\n")) = "Circular dependencies detected:"
                  /\ Tail(SplitOn(poutcome.msg, "\n")) = LastCycles)
    /\ [][pj' # pj => /\ pj' = pj + 1
                      /\ pviolations' = pviolations \o
                            FindAllCyclesInDependencies(WholeProjectGraph(pfiles),
                                                        project_rules[pj])]_vars

\* a finished run in which a module rule was violated and a project rule found
\* two cycles, reported after the module rule's message
C15_Witness ==
    /\ ppc = "done" /\ Len(project_rules) = 2
    /\ MessagesOfAll(pfiles, module_rules) # <<>>
    /\ Len(LastCycles) = 2
    /\ Len(pviolations) > Len(MessagesOfAll(pfiles, module_rules)) + 2

(***************************************************************************)
(* get_dependencies_in_file: the declaration scan over use-trees and       *)
(* inline modules, the reference scan over expression and type paths, and  *)
(* the removal of duplicates.  A syntax tree is a value:                   *)
(*   use-tree  [kind |-> "Path", ident, tree] | [kind |-> "Group", items]  *)
(*             | [kind |-> "Name", ident] | [kind |-> "Glob"]              *)
(*             | [kind |-> "Rename", ident, rename]                        *)
(*   item      [kind |-> "Use", tree] | [kind |-> "Mod", ident, inline,    *)
(*             items] | [kind |-> "Other", paths]                          *)
(*   path node [pos |-> "expr" or "type", segments]                        *)
(* The paths of an item are its path nodes in the order the visitor meets  *)
(* them: a node before the nodes of its generic arguments.                 *)
(***************************************************************************)
UsePath(i, t) == [kind |-> "Path", ident |-> i, tree |-> t]
UseGroup(ts) == [kind |-> "Group", items |-> ts]
UseName(n) == [kind |-> "Name", ident |-> n]
UseGlob == [kind |-> "Glob"]
UseRename(n, m) == [kind |-> "Rename", ident |-> n, rename |-> m]
ItemUse(t) == [kind |-> "Use", tree |-> t]
ItemMod(i, its) == [kind |-> "Mod", ident |-> i, inline |-> TRUE, items |-> its]
ItemModDecl(i) == [kind |-> "Mod", ident |-> i, inline |-> FALSE, items |-> <<>>]
ItemOther(ps) == [kind |-> "Other", paths |-> ps]
ExprPath(segs) == [pos |-> "expr", segments |-> segs]
TypePath(segs) == [pos |-> "type", segments |-> segs]

\* a variant of insert that keeps the entry a key already has
MapKeepFirst(m, k, v) == IF \E e \in m : e[1] = k THEN m ELSE m \cup {<<k, v>>}

\* aliases.insert(key, value) on a map kept as a set of entries <<key, value>>
MapInsert(m, k, v) == {e \in m : e[1] # k} \cup {<<k, v>>}
MapHas(m, k) == \E e \in m : e[1] = k

\* current_module.split("::").next().unwrap_or("")
CrateName(current_module) == Segments(current_module)[1]

\* a variant in which super stands for the module itself
SuperModuleIsModule(current_module) == current_module

\* current_module.rsplitn(2, "::").nth(1).unwrap_or("")
SuperModule(current_module) ==
    LET segs == Segments(current_module)
    IN  IF Len(segs) = 1 THEN "" ELSE Join(SubSeq(segs, 1, Len(segs) - 1), "::")

RECURSIVE CollectDependenciesFromTree(_, _, _, _)
RECURSIVE CollectFromGroup(_, _, _, _)
\* collect_dependencies_from_tree(tree, dependencies, aliases, current_module,
\* prefix), with acc = [dependencies, aliases] as the call leaves them
CollectDependenciesFromTree(tree, acc, current_module, prefix) ==
    CASE tree.kind = "Path" ->
           IF tree.ident = "super"
           THEN CollectDependenciesFromTree(tree.tree, acc, current_module,
                                            SuperModule(current_module))
           ELSE IF tree.ident = "crate"
           THEN CollectDependenciesFromTree(tree.tree, acc, current_module,
                                            CrateName(current_module))
           ELSE CollectDependenciesFromTree(tree.tree, acc, current_module,
                    IF prefix = "" THEN tree.ident ELSE prefix \o "::" \o tree.ident)
      [] tree.kind = "Group" ->
           CollectFromGroup(tree.items, acc, current_module, prefix)
      [] tree.kind = "Name" ->
           LET dep == prefix \o "::" \o tree.ident
           IN  [dependencies |-> Append(acc.dependencies, dep),
                aliases |-> MapInsert(acc.aliases, tree.ident, dep)]
      [] tree.kind = "Glob" ->
           [acc EXCEPT !.dependencies = Append(@, prefix \o "::*")]
      [] tree.kind = "Rename" ->
           LET dep == prefix \o "::" \o tree.ident
           IN  [dependencies |-> Append(acc.dependencies, dep),
                aliases |-> MapInsert(acc.aliases, tree.rename, dep)]

\* the for loop over group.items
CollectFromGroup(trees, acc, current_module, prefix) ==
    IF trees = <<>> THEN acc
    ELSE CollectFromGroup(Tail(trees),
             CollectDependenciesFromTree(Head(trees), acc, current_module, prefix),
             current_module, prefix)

RECURSIVE ParseInlineModule(_, _, _)
RECURSIVE ParseModuleItems(_, _, _)
\* parse_inline_module(mod_item, dependencies, aliases, current_module)
ParseInlineModule(mod_item, acc, current_module) ==
    IF mod_item.inline
    THEN ParseModuleItems(mod_item.items, acc, current_module \o "::" \o mod_item.ident)
    ELSE acc

\* the for loop of parse_inline_module over the items of the module
ParseModuleItems(its, acc, module_path) ==
    IF its = <<>> THEN acc
    ELSE LET item == Head(its)
             next == CASE item.kind = "Use" ->
                            CollectDependenciesFromTree(item.tree, acc, module_path, "")
                       [] item.kind = "Mod" -> ParseInlineModule(item, acc, module_path)
                       [] OTHER -> acc
         IN  ParseModuleItems(Tail(its), next, module_path)

\* path_to_string
PathToString(segments) == Join(segments, "::")

\* a variant that leaves a super path as it is written
ResolveSuperPathAsWritten(segments, current_module) == PathToString(segments)

\* resolve_super_path(path, current_module)
ResolveSuperPath(segments, current_module) ==
    LET parent_module == SuperModule(current_module)
        rest == Join(Tail(segments), "::")
    IN  IF rest = "" THEN parent_module ELSE parent_module \o "::" \o rest

\* rejoin_alias_with_rest(alias_full, path)
RejoinAliasWithRest(alias_full, segments) ==
    LET rest == Join(Tail(segments), "::")
    IN  IF rest = "" THEN alias_full ELSE alias_full \o "::" \o rest

\* visit_expr_path: what the visitor pushes for one expression path
VisitExprPath(segments, aliases_, current_module) ==
    LET first_ident == Head(segments)
    IN  IF first_ident = "crate" THEN <<PathToString(segments)>>
        ELSE IF first_ident = "super"
        THEN <<ResolveSuperPath(segments, current_module)>>
        ELSE IF MapHas(aliases_, first_ident)
        THEN <<RejoinAliasWithRest(Get(aliases_, first_ident), segments)>>
        ELSE <<>>

\* visit_type_path: what the visitor pushes for one type path
VisitTypePath(segments, aliases_, current_module) ==
    LET first_ident == Head(segments)
    IN  IF Len(segments) = 1 THEN <<>>
        ELSE IF first_ident = "crate" THEN <<PathToString(segments)>>
        ELSE IF first_ident = "super"
        THEN <<ResolveSuperPath(segments, current_module)>>
        ELSE IF MapHas(aliases_, first_ident)
        THEN <<RejoinAliasWithRest(Get(aliases_, first_ident), segments)>>
        ELSE <<PathToString(segments)>>

RECURSIVE VisitPaths(_, _, _)
\* the visitor over the path nodes of one item, in visiting order
VisitPaths(paths, aliases_, current_module) ==
    IF paths = <<>> THEN <<>>
    ELSE (IF Head(paths).pos = "expr"
          THEN VisitExprPath(Head(paths).segments, aliases_, current_module)
          ELSE VisitTypePath(Head(paths).segments, aliases_, current_module))
         \o VisitPaths(Tail(paths), aliases_, current_module)

RECURSIVE VisitItems(_, _, _)
\* visit::visit_file: the items in source order, inline modules entered; the
\* visitor keeps the file's logical path as current_module throughout
VisitItems(its, aliases_, current_module) ==
    IF its = <<>> THEN <<>>
    ELSE LET item == Head(its)
             here == CASE item.kind = "Other" ->
                            VisitPaths(item.paths, aliases_, current_module)
                       [] item.kind = "Mod" ->
                            VisitItems(item.items, aliases_, current_module)
                       [] OTHER -> <<>>
         IN  here \o VisitItems(Tail(its), aliases_, current_module)

\* a variant of the last step that keeps the last occurrence of a dependency
RECURSIVE KeepLast(_)
KeepLast(deps) ==
    IF deps = <<>> THEN <<>>
    ELSE LET init == SubSeq(deps, 1, Len(deps) - 1)
             last == deps[Len(deps)]
         IN  KeepLast(SelectSeq(init, LAMBDA x : x # last)) \o <<last>>

\* step 3: filter(|dep| unique_set.insert(dep.clone()))
RECURSIVE Unique(_)
Unique(deps) ==
    IF deps = <<>> THEN <<>>
    ELSE LET init == Unique(SubSeq(deps, 1, Len(deps) - 1))
             last == deps[Len(deps)]
         IN  IF Contains(init, last) THEN init ELSE Append(init, last)

(***************************************************************************)
(* SpecDeps: get_dependencies_in_file on a drawn file.                     *)
(***************************************************************************)
\* most top-level items of a drawn file
MaxItems == 2

\* the logical paths of the drawn files
FilePaths == {"pkg", "pkg::a::b"}

\* the use-trees of the drawn files, written as in the source:
\*   crate::x, crate::*, crate::a::x, crate::{a::{self, B}, c::*},
\*   super::x, super::*, super::super::x,
\*   lib::x, lib::col as c, lib::a::x, lib::{self, x}, x
UseTrees ==
    { UsePath("crate", UseName("x")),
      UsePath("crate", UseGlob),
      UsePath("crate", UsePath("a", UseName("x"))),
      UsePath("crate", UseGroup(
          <<UsePath("a", UseGroup(<<UseName("self"), UseName("B")>>)),
            UsePath("c", UseGlob)>>)),
      UsePath("super", UseName("x")),
      UsePath("super", UseGlob),
      UsePath("super", UsePath("super", UseName("x"))),
      UsePath("lib", UseName("x")),
      UsePath("lib", UseRename("col", "c")),
      UsePath("lib", UsePath("a", UseName("x"))),
      UsePath("lib", UseGroup(<<UseName("self"), UseName("x")>>)),
      UseName("x") }

\* the path nodes of an item that is neither a use nor a module
Bodies ==
    { <<TypePath(<<"c", "M">>), TypePath(<<"i32">>), TypePath(<<"bool">>),
        TypePath(<<"lib", "other", "T">>)>>,
      <<ExprPath(<<"crate", "a", "f">>), TypePath(<<"crate", "a", "x">>)>>,
      <<ExprPath(<<"super", "x">>), TypePath(<<"super", "T">>)>>,
      <<ExprPath(<<"c", "f">>), ExprPath(<<"lib", "f">>), ExprPath(<<"x">>),
        TypePath(<<"x">>), ExprPath(<<"f">>)>>,
      <<TypePath(<<"lib", "x">>), TypePath(<<"x", "T">>)>> }

\* the items of an inline module
ModuleBodies ==
    { <<ItemUse(UsePath("super", UseGlob))>>,
      <<ItemUse(UsePath("crate", UsePath("a", UseName("x"))))>>,
      <<ItemOther(<<ExprPath(<<"super", "x">>)>>)>>,
      <<ItemMod("inner", <<ItemUse(UsePath("super", UseName("x")))>>),
        ItemOther(<<TypePath(<<"x", "T">>)>>)>> }

Items ==
    {ItemUse(t) : t \in UseTrees}
      \cup {ItemOther(b) : b \in Bodies}
      \cup {ItemMod("tests", b) : b \in ModuleBodies}
      \cup {ItemModDecl("tests")}

NoScan == [dependencies |-> <<>>, aliases |-> {}]

InitDeps ==
    /\ src_file \in [logical_path : FilePaths, items : SeqsUpTo(Items, MaxItems)]
    /\ scan = NoScan /\ item_i = 1
    /\ collected = <<>> /\ returned = <<>>
    /\ dpc = "declarations"
    /\ IcIdle /\ RuleIdle /\ EngineIdle /\ MoreIdle /\ CycleIdle /\ ProjIdle

CurrentItem == src_file.items[item_i]

\* step 1, an item that is a use
ScanUseItem ==
    /\ dpc = "declarations" /\ item_i <= Len(src_file.items)
    /\ CurrentItem.kind = "Use"
    /\ scan' = CollectDependenciesFromTree(CurrentItem.tree, scan,
                                           src_file.logical_path, "")
    /\ item_i' = item_i + 1
    /\ UNCHANGED <<src_file, collected, returned, dpc>>
    /\ UNCHANGED <<icVars, ruleVars, engineVars, moreVars, cycleVars, projVars>>

\* step 1, an item that is a module
ScanModItem ==
    /\ dpc = "declarations" /\ item_i <= Len(src_file.items)
    /\ CurrentItem.kind = "Mod"
    /\ scan' = ParseInlineModule(CurrentItem, scan, src_file.logical_path)
    /\ item_i' = item_i + 1
    /\ UNCHANGED <<src_file, collected, returned, dpc>>
    /\ UNCHANGED <<icVars, ruleVars, engineVars, moreVars, cycleVars, projVars>>

\* step 1, any other item
ScanOtherItem ==
    /\ dpc = "declarations" /\ item_i <= Len(src_file.items)
    /\ CurrentItem.kind = "Other"
    /\ item_i' = item_i + 1
    /\ UNCHANGED <<src_file, scan, collected, returned, dpc>>
    /\ UNCHANGED <<icVars, ruleVars, engineVars, moreVars, cycleVars, projVars>>

\* step 2: the visitor walks the file, its dependencies extend the list
VisitFile ==
    /\ dpc = "declarations" /\ item_i > Len(src_file.items)
    /\ collected' = VisitItems(src_file.items, scan.aliases, src_file.logical_path)
    /\ scan' = [scan EXCEPT !.dependencies = @ \o collected']
    /\ dpc' = "visited"
    /\ UNCHANGED <<src_file, item_i, returned>>
    /\ UNCHANGED <<icVars, ruleVars, engineVars, moreVars, cycleVars, projVars>>

\* step 3: the duplicates are removed and the list is returned
RemoveDuplicates ==
    /\ dpc = "visited"
    /\ returned' = Unique(scan.dependencies)
    /\ dpc' = "done"
    /\ UNCHANGED <<src_file, scan, item_i, collected>>
    /\ UNCHANGED <<icVars, ruleVars, engineVars, moreVars, cycleVars, projVars>>

NextDeps ==
    \/ ScanUseItem
    \/ ScanModItem
    \/ ScanOtherItem
    \/ VisitFile
    \/ RemoveDuplicates
SpecDeps == InitDeps /\ [][NextDeps]_vars

(***************************************************************************)
(* What the claims on dependency extraction expect, computed from the      *)
(* syntax tree leaf by leaf.                                               *)
(***************************************************************************)
Done == dpc = "done"
\* the items the declaration scan has been through, and what it has emitted
Scanned == SubSeq(src_file.items, 1, item_i - 1)
Declared == SubSeq(scan.dependencies, 1, Len(scan.dependencies) - Len(collected))

\* the first occurrences of a list, in order
RECURSIVE FirstOccurrences(_)
FirstOccurrences(q) ==
    IF q = <<>> THEN <<>>
    ELSE <<Head(q)>> \o FirstOccurrences(SelectSeq(Tail(q), LAMBDA x : x # Head(q)))

\* C16: the returned list has no duplicate and holds each dependency at the
\* place of its first occurrence in the raw emissions, which are those of the
\* declaration scan followed by those of the reference scan.
C16_DedupKeepsFirst ==
    /\ [](dpc = "declarations" => collected = <<>>)
    /\ [][(dpc = "declarations" /\ dpc' = "visited")
            => scan'.dependencies = scan.dependencies \o collected']_vars
    /\ [](Done =>
            /\ \A i, j \in DOMAIN returned : returned[i] = returned[j] => i = j
            /\ returned = FirstOccurrences(scan.dependencies)
            /\ \A i, j \in DOMAIN returned :
                  (Contains(Declared, returned[i]) /\ ~Contains(Declared, returned[j]))
                     => i < j)

\* a dependency emitted by both scans is returned once, before a dependency
\* only the reference scan emitted
C16_Witness ==
    /\ Done
    /\ \E i \in DOMAIN Declared : Contains(collected, Declared[i])
    /\ \E i \in DOMAIN collected : ~Contains(Declared, collected[i])
    /\ Len(returned) < Len(scan.dependencies)
    /\ Len(returned) >= 2

\* C17 (as stated): the returned dependencies hold neither the file's logical
\* path nor a descendant of it.
C17_NoSelfReference ==
    Done => \A i \in DOMAIN returned : ~Descendant(returned[i], src_file.logical_path)

\* the leaves of a use-tree in order, each with the identifiers above it
RECURSIVE LeavesOf(_, _)
RECURSIVE LeavesOfAll(_, _)
LeavesOf(tree, above) ==
    CASE tree.kind = "Path" -> LeavesOf(tree.tree, Append(above, tree.ident))
      [] tree.kind = "Group" -> LeavesOfAll(tree.items, above)
      [] OTHER -> <<[above |-> above, leaf |-> tree]>>
LeavesOfAll(trees, above) ==
    IF trees = <<>> THEN <<>>
    ELSE LeavesOf(Head(trees), above) \o LeavesOfAll(Tail(trees), above)

\* the use-trees of a list of items in order, each with its enclosing module
RECURSIVE UsesOf(_, _)
UsesOf(its, module) ==
    IF its = <<>> THEN <<>>
    ELSE (CASE Head(its).kind = "Use" -> <<[tree |-> Head(its).tree, module |-> module]>>
            [] Head(its).kind = "Mod" /\ Head(its).inline ->
                 UsesOf(Head(its).items, module \o "::" \o Head(its).ident)
            [] OTHER -> <<>>)
         \o UsesOf(Tail(its), module)

\* the leaves of all the use-trees of a list of items, each with its module
RECURSIVE ModuleLeaves(_)
ModuleLeaves(uses) ==
    IF uses = <<>> THEN <<>>
    ELSE [i \in DOMAIN LeavesOf(Head(uses).tree, <<>>) |->
             [above |-> LeavesOf(Head(uses).tree, <<>>)[i].above,
              leaf |-> LeavesOf(Head(uses).tree, <<>>)[i].leaf,
              module |-> Head(uses).module]]
         \o ModuleLeaves(Tail(uses))

Keywords == {"crate", "super"}
AllButLast(q) == SubSeq(q, 1, Len(q) - 1)
PackageOf(module) == Head(Segments(module))
ParentOf(module) == Join(AllButLast(Segments(module)), "::")

\* crate and super stand at the head of the path only
KeywordsLead(l) == \A i \in 2..Len(l.above) : l.above[i] \notin Keywords
StartsWithKeyword(l) == l.above # <<>> /\ Head(l.above) \in Keywords

\* the prefix a leaf is resolved with
PrefixOf(l) ==
    IF l.above = <<>> THEN ""
    ELSE LET head == IF Head(l.above) = "crate" THEN PackageOf(l.module)
                     ELSE IF Head(l.above) = "super" THEN ParentOf(l.module)
                     ELSE Head(l.above)
             rest == Join(Tail(l.above), "::")
         IN  IF head = "" THEN rest
             ELSE IF rest = "" THEN head
             ELSE head \o "::" \o rest

\* what a leaf emits
EmissionOf(l) ==
    IF l.leaf.kind = "Glob" THEN PrefixOf(l) \o "::*"
    ELSE PrefixOf(l) \o "::" \o l.leaf.ident

ScannedLeaves == ModuleLeaves(UsesOf(Scanned, src_file.logical_path))

\* C18: in the declaration scan a leading crate stands for the package name,
\* the first segment of the enclosing module path, and a leading super for the
\* parent of the enclosing module path; the enclosing module is the file's
\* logical path at top level and logical_path::ident inside mod ident { }.
C18_KeywordResolution ==
    /\ (\A i \in DOMAIN ScannedLeaves :
            KeywordsLead(ScannedLeaves[i]) /\ StartsWithKeyword(ScannedLeaves[i]))
          => Declared = [i \in DOMAIN ScannedLeaves |-> EmissionOf(ScannedLeaves[i])]
    /\ (/\ Done /\ src_file.logical_path = "pkg::a::b"
        /\ src_file.items \in
              {<<ItemUse(UsePath("crate", UsePath("a", UseName("x"))))>>,
               <<ItemUse(UsePath("super", UseName("x")))>>})
          => returned = <<"pkg::a::x">>
    /\ (/\ Done /\ src_file.logical_path = "pkg::a::b"
        /\ src_file.items = <<ItemMod("tests", <<ItemUse(UsePath("super", UseGlob))>>)>>)
          => returned = <<"pkg::a::b::*">>

\* a file with a crate import at top level and a super import in a module
\* nested in an inline module, both scanned
C18_Witness ==
    /\ Done /\ src_file.logical_path = "pkg::a::b" /\ Len(src_file.items) = 2
    /\ src_file.items[1] = ItemUse(UsePath("crate", UsePath("a", UseName("x"))))
    /\ src_file.items[2].kind = "Mod"
    /\ Declared = <<"pkg::a::x", "pkg::a::b::tests::x">>

\* the alias table the leaves of the scanned use-trees make: a name under
\* itself, a rename under its new name, the last one of a key staying
ExpectedAliases ==
    LET key(l) == IF l.leaf.kind = "Rename" THEN l.leaf.rename ELSE l.leaf.ident
        named == {i \in DOMAIN ScannedLeaves : ScannedLeaves[i].leaf.kind # "Glob"}
    IN  {<<key(ScannedLeaves[i]), EmissionOf(ScannedLeaves[i])>> :
            i \in {k \in named : \A m \in named :
                                     key(ScannedLeaves[m]) = key(ScannedLeaves[k]) => m <= k}}

\* C19: with resolved prefix P a name N emits P::N under alias N, a rename
\* N as M emits P::N under alias M only, a glob emits P::* under no alias, a
\* group hands P unchanged to each child in order, self in a group emits
\* P::self.
C19_Leaves ==
    /\ (\A i \in DOMAIN ScannedLeaves : KeywordsLead(ScannedLeaves[i]))
          => /\ Declared = [i \in DOMAIN ScannedLeaves |-> EmissionOf(ScannedLeaves[i])]
             /\ scan.aliases = ExpectedAliases
    /\ (/\ Done
        /\ src_file.items = <<ItemUse(UsePath("lib", UsePath("a", UseName("x"))))>>)
          => returned = <<"lib::a::x">>
    /\ (/\ Done
        /\ src_file.items = <<ItemUse(UsePath("crate", UseGroup(
               <<UsePath("a", UseGroup(<<UseName("self"), UseName("B")>>)),
                 UsePath("c", UseGlob)>>)))>>)
          => returned = <<"pkg::a::self", "pkg::a::B", "pkg::c::*">>

\* a nested group with self and a glob, then a rename, both scanned: three
\* aliases, none for the glob nor for the renamed name
C19_Witness ==
    /\ Done /\ Len(src_file.items) = 2
    /\ returned = <<"pkg::a::self", "pkg::a::B", "pkg::c::*", "lib::col">>
    /\ scan.aliases = {<<"self", "pkg::a::self">>, <<"B", "pkg::a::B">>,
                       <<"c", "lib::col">>}

\* the path nodes of a list of items in the order the visitor meets them
RECURSIVE PathNodesOf(_)
PathNodesOf(its) ==
    IF its = <<>> THEN <<>>
    ELSE (CASE Head(its).kind = "Other" -> Head(its).paths
            [] Head(its).kind = "Mod" -> PathNodesOf(Head(its).items)
            [] OTHER -> <<>>)
         \o PathNodesOf(Tail(its))

\* what the reference scan emits for one path node, by the four cases
ReferenceOf(node) ==
    LET segs == node.segments
        rest == Join(Tail(segs), "::")
        with(base) == IF rest = "" THEN base ELSE base \o "::" \o rest
    IN  IF node.pos = "type" /\ Len(segs) = 1 THEN <<>>
        ELSE IF Head(segs) = "crate" THEN <<Join(segs, "::")>>
        ELSE IF Head(segs) = "super" THEN <<with(ParentOf(src_file.logical_path))>>
        ELSE IF \E e \in scan.aliases : e[1] = Head(segs)
        THEN <<with((CHOOSE e \in scan.aliases : e[1] = Head(segs))[2])>>
        ELSE IF node.pos = "type" THEN <<Join(segs, "::")>>
        ELSE <<>>

RECURSIVE ReferencesOf(_)
ReferencesOf(nodes) ==
    IF nodes = <<>> THEN <<>>
    ELSE ReferenceOf(Head(nodes)) \o ReferencesOf(Tail(nodes))

\* C20: the reference scan emits, for each path node in visiting order: the
\* path as it is when it starts with crate; the parent of the file's logical
\* path joined with the rest when it starts with super, also inside inline
\* modules; the alias target joined with the rest when its first segment is an
\* alias; otherwise the path as it is for a type path and nothing for an
\* expression path.  A type path of one segment emits nothing.
C20_ReferenceScan ==
    /\ dpc \in {"visited", "done"} => collected = ReferencesOf(PathNodesOf(src_file.items))
    /\ (/\ Done
        /\ src_file.items =
              <<ItemUse(UsePath("lib", UseRename("col", "c"))),
                ItemOther(<<TypePath(<<"c", "M">>), TypePath(<<"i32">>),
                            TypePath(<<"bool">>), TypePath(<<"lib", "other", "T">>)>>)>>)
          => returned = <<"lib::col", "lib::col::M", "lib::other::T">>

\* a super path inside an inline module, resolved against the file's logical
\* path, after a renaming import
C20_Witness ==
    /\ Done /\ src_file.logical_path = "pkg::a::b" /\ Len(src_file.items) = 2
    /\ src_file.items[1] = ItemUse(UsePath("lib", UseRename("col", "c")))
    /\ src_file.items[2].kind = "Mod"
    /\ collected = <<"pkg::a::x">>

(***************************************************************************)
(* The resolver of logical paths: parse_module_logical_path.  A path is    *)
(* the sequence of its components; a file system is [dirs, files,          *)
(* manifests], manifests being a map from the directories that hold a      *)
(* Cargo.toml to what the manifest says.  An Option is <<>> for None and   *)
(* <<x>> for Some(x).                                                      *)
(***************************************************************************)
None == <<>>
Some(x) == <<x>>

\* Result<String, String>::Ok
OkValue(v) == [kind |-> "Ok", value |-> v]

\* Path::display / to_str
Display(path) == Join(path, "/")

\* the last position of the character c in s[1..i], 0 when there is none
RECURSIVE LastIndexOf(_, _, _)
LastIndexOf(s, c, i) ==
    IF i = 0 THEN 0
    ELSE IF SubSeq(s, i, i) = c THEN i
    ELSE LastIndexOf(s, c, i - 1)

\* Path::extension: what follows the last dot of the file name, None when the
\* name has no dot or only a leading one
Extension(path) ==
    IF path = <<>> THEN None
    ELSE LET name == path[Len(path)]
             i == LastIndexOf(name, ".", Len(name))
         IN  IF i <= 1 THEN None ELSE Some(SubSeq(name, i + 1, Len(name)))

\* str::ends_with
EndsWith(s, p) == Len(p) <= Len(s) /\ SubSeq(s, Len(s) - Len(p) + 1, Len(s)) = p

\* str::trim_end_matches: the suffix is removed as often as it is there
RECURSIVE TrimEndMatches(_, _)
TrimEndMatches(s, p) ==
    IF p # "" /\ EndsWith(s, p) THEN TrimEndMatches(SubSeq(s, 1, Len(s) - Len(p)), p)
    ELSE s

\* Path::ancestors: the path itself, its parent, ..., the empty path
Ancestors(path) == [i \in 1..(Len(path) + 1) |-> SubSeq(path, 1, Len(path) + 1 - i)]

\* dir.join("Cargo.toml").exists()
HasManifest(f, dir) == dir \in Keys(f.manifests)

\* path.ancestors().find(|ancestor| ancestor.join("Cargo.toml").exists())
FindCrateRoot(f, path) ==
    LET anc == Ancestors(path)
        hits == {i \in DOMAIN anc : HasManifest(f, anc[i])}
    IN  IF hits = {} THEN None
        ELSE Some(anc[CHOOSE i \in hits : \A j \in hits : i <= j])

\* a variant that keeps the whole relative path
KeepWholePath(comps) == comps

\* the loop that consumes the components up to and including the first "src",
\* entered only when there is one
SkipThroughSrc(comps) ==
    IF \E i \in DOMAIN comps : comps[i] = "src"
    THEN LET k == CHOOSE i \in DOMAIN comps :
                     /\ comps[i] = "src"
                     /\ \A j \in 1..(i - 1) : comps[j] # "src"
         IN  SubSeq(comps, k + 1, Len(comps))
    ELSE comps

\* the parts of the module path: the last one without its ".rs"
ModuleParts(comps) ==
    IF comps = <<>> THEN <<>>
    ELSE LET last == comps[Len(comps)]
         IN  IF EndsWith(last, ".rs")
             THEN [comps EXCEPT ![Len(comps)] = TrimEndMatches(last, ".rs")]
             ELSE comps

\* parse_module_logical_path(file_path) on the file system f
ParseModuleLogicalPath(f, path) ==
    LET ext == Extension(path)
        crate_root == FindCrateRoot(f, path)
    IN  IF path \in f.dirs
        THEN Err("The specified path '" \o Display(path) \o "' is a directory, not a file")
        ELSE IF ext # Some("rs")
        THEN Err("Invalid file type: expected a Rust file (.rs), found '"
                    \o (IF ext = None THEN "unknown" ELSE ext[1]) \o "'")
        ELSE IF crate_root = None
        THEN Err("File is not part of a Rust crate: " \o Display(path))
        ELSE LET manifest == Get(f.manifests, crate_root[1])
                 relative_path == SubSeq(path, Len(crate_root[1]) + 1, Len(path))
                 parts == ModuleParts(SkipThroughSrc(relative_path))
             IN  IF manifest.package_name = None
                 THEN Err("Failed to parse crate name: Missing 'package.name' in Cargo.toml")
                 ELSE IF parts = <<>>
                 THEN Err("Failed to determine module path for '" \o Display(path) \o "'")
                 ELSE OkValue(manifest.package_name[1] \o "::" \o Join(parts, "::"))

(***************************************************************************)
(* SpecResolve: one call of parse_module_logical_path on a drawn path in a *)
(* drawn file system.                                                      *)
(***************************************************************************)
\* what a Cargo.toml says: package.name, workspace.members and
\* package.metadata.source, each an Option
PackageManifest(n) == [package_name |-> Some(n), members |-> None, source |-> None]
NamelessManifest == [package_name |-> None, members |-> None, source |-> None]

\* the paths handed to the call
ResolvePaths ==
    { <<"src", "lib.rs">>, <<"src", "foo", "mod.rs">>, <<"src", "foo.rs">>,
      <<"src", "foo", "bar.rs">>, <<"src", "bar.rs.rs">>, <<"src", "foo.txt">>,
      <<"src", "foo">>, <<"src", ".rs">>, <<"tests", "t.rs">>,
      <<"m", "src", "lib.rs">>, <<"m", "x", "src", "src", "bar.rs">>,
      <<"m", "build.rs">>, <<"m">> }

\* the directories a path lies in
ProperAncestors(path) == {SubSeq(path, 1, k) : k \in 0..(Len(path) - 1)}

\* the path is a file or a directory; the working directory and the directory
\* m each hold no manifest, a manifest of a package, or one without a name
InitResolve ==
    /\ file_path \in ResolvePaths
    /\ \E is_dir \in BOOLEAN :
       \E top \in {None, Some(PackageManifest("pkg")), Some(NamelessManifest)} :
       \E inner \in {None, Some(PackageManifest("inner")), Some(NamelessManifest)} :
          /\ (file_path = <<"m">> /\ inner # None) => is_dir
          /\ filesystem =
               [dirs |-> ProperAncestors(file_path)
                           \cup (IF is_dir THEN {file_path} ELSE {})
                           \cup (IF inner # None THEN {<<"m">>} ELSE {}),
                files |-> IF is_dir THEN {} ELSE {file_path},
                manifests |-> {<<<<>>, top[i]>> : i \in DOMAIN top}
                                \cup {<<<<"m">>, inner[i]>> : i \in DOMAIN inner}]
    /\ resolved = NoOutcome /\ res_pc = "new"
    /\ DiscIdle /\ DslIdle /\ OrderIdle
    /\ IcIdle /\ RuleIdle /\ EngineIdle /\ CycleIdle /\ ProjIdle /\ DepIdle

\* parse_module_logical_path(file_path)
CallParseModuleLogicalPath ==
    /\ res_pc = "new"
    /\ resolved' = ParseModuleLogicalPath(filesystem, file_path)
    /\ res_pc' = "done"
    /\ UNCHANGED <<filesystem, file_path, discVars, dslVars, orderVars, icVars,
                   ruleVars, engineVars,
                   cycleVars, projVars, depVars>>

NextResolve == CallParseModuleLogicalPath
SpecResolve == InitResolve /\ [][NextResolve]_vars

(***************************************************************************)
(* What the claims on the resolver speak of, stated on the drawn path and  *)
(* file system.                                                            *)
(***************************************************************************)
ResolveDone == res_pc = "done"

\* the name of the file and whether it carries the source extension
FileNameOf(path) == path[Len(path)]
IsSourceName(n) == Len(n) > 3 /\ SubSeq(n, Len(n) - 2, Len(n)) = ".rs"

\* the directories above the path that hold a manifest, and the nearest one
ManifestDirsAbove ==
    {d \in Keys(filesystem.manifests) :
        Len(d) < Len(file_path) /\ SubSeq(file_path, 1, Len(d)) = d}
PackageRoot == CHOOSE d \in ManifestDirsAbove : \A e \in ManifestDirsAbove : Len(e) <= Len(d)
PackageName == Get(filesystem.manifests, PackageRoot).package_name

\* the path relative to the package root, and what is left of it after its
\* first src segment
RelativeToPackage == SubSeq(file_path, Len(PackageRoot) + 1, Len(file_path))
RECURSIVE AfterSrc(_)
AfterSrc(q) ==
    IF q = <<>> THEN <<>>
    ELSE IF q[1] = "src" THEN Tail(q)
    ELSE AfterSrc(Tail(q))
KeptSegments ==
    IF \E i \in DOMAIN RelativeToPackage : RelativeToPackage[i] = "src"
    THEN AfterSrc(RelativeToPackage)
    ELSE RelativeToPackage

\* the first check of the resolver that the drawn path fails
FirstFailedCheck ==
    IF file_path \in filesystem.dirs THEN "NotAFile"
    ELSE IF ~IsSourceName(FileNameOf(file_path)) THEN "WrongExtension"
    ELSE IF ManifestDirsAbove = {} THEN "NotInAPackage"
    ELSE IF PackageName = None THEN "MissingPackageName"
    ELSE "none"

\* which error a result is, told by its message
ErrorKindOf(r) ==
    IF r.kind = "Ok" THEN "none"
    ELSE IF r.kind # "Err" THEN "panic"
    ELSE IF StartsWith(r.msg, "The specified path '") THEN "NotAFile"
    ELSE IF StartsWith(r.msg, "Invalid file type") THEN "WrongExtension"
    ELSE IF StartsWith(r.msg, "File is not part of a Rust crate") THEN "NotInAPackage"
    ELSE IF StartsWith(r.msg, "Failed to parse crate name") THEN "MissingPackageName"
    ELSE "other"

\* C21: a resolved file named lib resolves to the package name alone, one
\* named mod to the path of its directory, and any other file to
\* package_name::segment1::...::segmentN with the extension dropped.
C21_SpecialCases ==
    (ResolveDone /\ resolved.kind = "Ok") =>
        LET name == FileNameOf(KeptSegments)
            stem == SubSeq(name, 1, Len(name) - 3)
            dirs == AllButLast(KeptSegments)
        IN  resolved.value =
                IF stem = "lib" THEN PackageName[1]
                ELSE IF stem = "mod" THEN Join(<<PackageName[1]>> \o dirs, "::")
                ELSE Join(<<PackageName[1]>> \o dirs \o <<stem>>, "::")

\* C22: the call returns a value, never a panic; its error is the one of the
\* first check that fails, in the order directory, extension, package,
\* package name; on success the segments of the result are the package name
\* followed by the relative path, without everything up to and including its
\* first src segment when it has one.
C22_ChecksAndErrors ==
    ResolveDone =>
        /\ resolved.kind \in {"Ok", "Err"}
        /\ ErrorKindOf(resolved) = FirstFailedCheck
        /\ resolved.kind = "Ok" =>
              LET segs == Segments(resolved.value)
              IN  /\ Len(segs) = 1 + Len(KeptSegments)
                  /\ AllButLast(segs) = <<PackageName[1]>> \o AllButLast(KeptSegments)
                  /\ StartsWith(FileNameOf(KeptSegments), segs[Len(segs)])

\* C22 witness: m/x/src/src/bar.rs in the package of m has resolved without
\* its components up to the first src.
C22_Witness ==
    /\ ResolveDone
    /\ file_path = <<"m", "x", "src", "src", "bar.rs">>
    /\ resolved = OkValue("inner::src::bar")

(***************************************************************************)
(* RustProject::from_directory and to_dependency_graph.  The content of a  *)
(* file is left out but for the dependencies it declares.                  *)
(***************************************************************************)
\* most members a drawn workspace manifest lists
MaxWorkspaceMembers == 2

\* a workspace manifest: a workspace without a members key behaves as one
\* with no members
WorkspaceManifest(ms) == [package_name |-> None, members |-> Some(ms), source |-> None]
\* a package manifest with package.metadata.source
CustomSourceManifest(n, dir) ==
    [package_name |-> Some(n), members |-> None, source |-> Some(dir)]

\* RustProject::find_source_dir(crate_dir); the backquotes of the messages are
\* written as quotes
FindSourceDir(f, crate_dir) ==
    IF ~HasManifest(f, crate_dir)
    THEN Err("No 'Cargo.toml' found in crate directory '" \o Display(crate_dir) \o "'")
    ELSE LET cargo_toml == Get(f.manifests, crate_dir)
         IN  IF cargo_toml.package_name # None /\ cargo_toml.source # None
             THEN OkValue(Append(crate_dir, cargo_toml.source[1]))
             ELSE OkValue(Append(crate_dir, "src"))

\* the loop of from_directory over the members: the source directories so
\* far, or the error of the first member whose source directory is not found
RECURSIVE MemberSourceDirs(_, _, _, _)
MemberSourceDirs(f, root, ms, dirs) ==
    IF ms = <<>> THEN OkValue(dirs)
    ELSE LET found == FindSourceDir(f, Append(root, ms[1]))
         IN  IF found.kind = "Err" THEN found
             ELSE MemberSourceDirs(f, root, Tail(ms), Append(dirs, found.value))

\* steps 1 and 2 of from_directory: the source directories of the project
SourceDirsOf(f, root) ==
    IF ~HasManifest(f, root)
    THEN Err("No 'Cargo.toml' found in '" \o Display(root) \o "'")
    ELSE LET cargo_toml == Get(f.manifests, root)
         IN  IF cargo_toml.members # None
             THEN MemberSourceDirs(f, root, cargo_toml.members[1], <<>>)
             ELSE LET found == FindSourceDir(f, root)
                  IN  IF found.kind = "Err" THEN found ELSE OkValue(<<found.value>>)

\* RustProject::is_rust_file
IsRustFile(path) == Extension(path) = Some("rs")

\* the dependencies of a file: each file declares one dependency of its own
FileDependencies(path) == <<"dep::" \o Join(path, "_")>>

\* RustFile::from_file_system(path): a panic when the path cannot be read as
\* a file or has no logical path
FromFileSystem(f, path) ==
    LET logical == ParseModuleLogicalPath(f, path)
    IN  IF path \notin f.files \/ logical.kind = "Err" THEN Panic
        ELSE OkValue([path |-> Display(path), logical_path |-> logical.value,
                      dependencies |-> FileDependencies(path)])

\* the entries WalkDir yields under a directory that is_rust_file lets through
RustEntries(f, dir) ==
    {p \in f.files \cup f.dirs :
        /\ Len(p) >= Len(dir) /\ SubSeq(p, 1, Len(dir)) = dir
        /\ IsRustFile(p)}

(***************************************************************************)
(* SpecDiscover: one call of from_directory on a drawn directory tree,     *)
(* followed by to_dependency_graph on the project it returned.             *)
(***************************************************************************)
\* the files a drawn crate directory holds, relative to it
Layouts ==
    { {},
      {<<"src", "lib.rs">>},
      {<<"src", "lib.rs">>, <<"src", "foo", "bar.rs">>, <<"src", "notes.txt">>},
      {<<"src", "bar.rs">>, <<"src", "bar.rs.rs">>} }

\* the manifest a drawn member directory holds, if any
MemberManifests ==
    {None, Some(PackageManifest("own")), Some(PackageManifest("shared")),
     Some(NamelessManifest)}

MemberNames == {"m1", "m2", "gone"}
MemberManifestsOf(m) ==
    IF m = "gone" THEN {None}
    ELSE IF m = "m1" THEN MemberManifests
    ELSE MemberManifests \ {Some(PackageManifest("own"))}
MemberLayoutsOf(m) == IF m = "gone" THEN {{}} ELSE Layouts

\* the file system of a crate directory with a layout and an optional manifest
TreeOf(dir, layout, manifest) ==
    [dirs |-> IF layout = {} /\ manifest = None THEN {}
              ELSE {dir} \cup UNION {ProperAncestors(dir \o p) : p \in layout},
     files |-> {dir \o p : p \in layout},
     manifests |-> {<<dir, manifest[i]>> : i \in DOMAIN manifest}]

Merge(a, b) ==
    [dirs |-> a.dirs \cup b.dirs, files |-> a.files \cup b.files,
     manifests |-> a.manifests \cup b.manifests]

\* the root p is a package (with the default or a custom source directory),
\* a workspace listing up to MaxWorkspaceMembers of the members, each with a
\* layout and a manifest or none, or a directory without a manifest
InitDiscover ==
    /\ root_dir = <<"p">>
    /\ \/ \E layout \in Layouts :
          \E m \in {Some(PackageManifest("pkg")), None,
                    Some(CustomSourceManifest("pkg", "src"))} :
             filesystem = TreeOf(<<"p">>, layout, m)
       \/ \E ms \in SeqsUpTo(MemberNames, MaxWorkspaceMembers) :
          \E man \in [MemberNames -> MemberManifests] :
          \E lay \in [MemberNames -> Layouts] :
             /\ \A m \in MemberNames :
                   /\ man[m] \in MemberManifestsOf(m)
                   /\ lay[m] \in MemberLayoutsOf(m)
             /\ filesystem =
                  Merge(TreeOf(<<"p">>, {}, Some(WorkspaceManifest(ms))),
                        Merge(TreeOf(<<"p", "m1">>, lay["m1"], man["m1"]),
                              TreeOf(<<"p", "m2">>, lay["m2"], man["m2"])))
    /\ source_dirs = <<>> /\ sd_i = 0 /\ walked = {} /\ rust_files = <<>>
    /\ discovered = NoOutcome /\ dep_graph = {} /\ dis_pc = "manifest"
    /\ ResolveIdle /\ DslIdle /\ OrderIdle
    /\ IcIdle /\ RuleIdle /\ EngineIdle /\ CycleIdle /\ ProjIdle /\ DepIdle

\* from_directory, steps 1 and 2: an error returns at once
FindSourceDirs ==
    /\ dis_pc = "manifest"
    /\ LET found == SourceDirsOf(filesystem, root_dir)
       IN  IF found.kind = "Err"
           THEN /\ discovered' = found /\ dis_pc' = "done"
                /\ UNCHANGED <<source_dirs, sd_i>>
           ELSE /\ source_dirs' = found.value /\ sd_i' = 1 /\ dis_pc' = "walk"
                /\ UNCHANGED discovered
    /\ UNCHANGED <<root_dir, walked, rust_files, dep_graph, filesystem, resolveVars,
                   dslVars, orderVars,
                   icVars, ruleVars, engineVars, cycleVars, projVars, depVars>>

\* step 3, one entry of the walk of the current source directory, in the
\* order WalkDir yields them
WalkEntry ==
    /\ dis_pc = "walk" /\ sd_i <= Len(source_dirs)
    /\ \E path \in RustEntries(filesystem, source_dirs[sd_i]) \ walked :
          LET rust_file == FromFileSystem(filesystem, path)
          IN  IF rust_file = Panic
              THEN /\ discovered' = Panic /\ dis_pc' = "done"
                   /\ UNCHANGED <<walked, rust_files>>
              ELSE /\ rust_files' = Append(rust_files, rust_file.value)
                   /\ walked' = walked \cup {path}
                   /\ UNCHANGED <<discovered, dis_pc>>
    /\ UNCHANGED <<root_dir, source_dirs, sd_i, dep_graph, filesystem, resolveVars,
                   dslVars, orderVars,
                   icVars, ruleVars, engineVars, cycleVars, projVars, depVars>>

\* step 3, the walk of the current source directory is over
NextSourceDir ==
    /\ dis_pc = "walk" /\ sd_i <= Len(source_dirs)
    /\ RustEntries(filesystem, source_dirs[sd_i]) \subseteq walked
    /\ sd_i' = sd_i + 1 /\ walked' = {}
    /\ UNCHANGED <<root_dir, source_dirs, rust_files, discovered, dep_graph, dis_pc,
                   filesystem, resolveVars, dslVars, orderVars,
                   icVars, ruleVars, engineVars, cycleVars, projVars, depVars>>

\* the end of from_directory
FromDirectoryReturn ==
    /\ dis_pc = "walk" /\ sd_i > Len(source_dirs)
    /\ IF rust_files = <<>>
       THEN discovered' = Err("No Rust source files found.") /\ dis_pc' = "done"
       ELSE discovered' = Ok /\ dis_pc' = "built"
    /\ UNCHANGED <<root_dir, source_dirs, sd_i, walked, rust_files, dep_graph,
                   filesystem, resolveVars, dslVars, orderVars,
                   icVars, ruleVars, engineVars, cycleVars, projVars, depVars>>

\* project.to_dependency_graph()
CallToDependencyGraph ==
    /\ dis_pc = "built"
    /\ dep_graph' = ToDependencyGraph(rust_files)
    /\ dis_pc' = "done"
    /\ UNCHANGED <<root_dir, source_dirs, sd_i, walked, rust_files, discovered,
                   filesystem, resolveVars, dslVars, orderVars,
                   icVars, ruleVars, engineVars, cycleVars, projVars, depVars>>

NextDiscover ==
    \/ FindSourceDirs
    \/ WalkEntry
    \/ NextSourceDir
    \/ FromDirectoryReturn
    \/ CallToDependencyGraph
SpecDiscover == InitDiscover /\ [][NextDiscover]_vars

(***************************************************************************)
(* What the claims on discovery speak of, stated on the drawn tree.        *)
(***************************************************************************)
DiscoverDone == dis_pc = "done"

\* the members the manifest of the root lists, when it is a workspace
ListedMembers ==
    IF HasManifest(filesystem, root_dir)
          /\ Get(filesystem.manifests, root_dir).members # None
    THEN Range(Get(filesystem.manifests, root_dir).members[1])
    ELSE {}

\* the listed members without a manifest of their own, and those that are
\* packages with a name
MembersWithoutManifest ==
    {m \in ListedMembers : ~HasManifest(filesystem, Append(root_dir, m))}
PackageMembers ==
    {m \in ListedMembers :
        /\ HasManifest(filesystem, Append(root_dir, m))
        /\ Get(filesystem.manifests, Append(root_dir, m)).package_name # None}

\* the source files below the src directory of a member
SourceFilesOf(m) ==
    {p \in filesystem.files :
        /\ Len(p) > Len(root_dir) + 2
        /\ SubSeq(p, 1, Len(root_dir) + 2) = root_dir \o <<m, "src">>
        /\ IsSourceName(FileNameOf(p))}

\* C25: in a workspace that lists a member without a manifest next to
\* package members with source files, discovery succeeds and the project
\* holds the files of the package members and no others.
C25_SkipsMembersWithoutManifest ==
    (/\ DiscoverDone
     /\ MembersWithoutManifest # {}
     /\ ListedMembers = MembersWithoutManifest \cup PackageMembers
     /\ \E m \in PackageMembers : SourceFilesOf(m) # {})
    => /\ discovered = Ok
       /\ {f.path : f \in Range(rust_files)}
            = {Display(p) : p \in UNION {SourceFilesOf(m) : m \in PackageMembers}}

\* C26: in a discovered project two files with different paths have
\* different logical paths, and the dependency graph has one node per file,
\* each with the dependencies of its file.
C26_UniqueLogicalPaths ==
    (DiscoverDone /\ discovered = Ok) =>
        /\ \A i, j \in DOMAIN rust_files :
              rust_files[i].path # rust_files[j].path
                  => rust_files[i].logical_path # rust_files[j].logical_path
        /\ Cardinality(dep_graph) = Len(rust_files)
        /\ \A i \in DOMAIN rust_files :
              <<rust_files[i].logical_path, rust_files[i].dependencies>> \in dep_graph

(***************************************************************************)
(* The rule builder of dsl/architectural_rules.rs.  The State parameter is *)
(* the variable bstate; a method is an action that is enabled in the       *)
(* states whose impl block defines it.                                     *)
(***************************************************************************)
\* most calls of a chain after define()
MaxCalls == 5

\* the impl blocks that define rules_for_crate and rules_for_module
SubjectStates == {"Begin", "ProjectDefined", "RulesDefined"}
\* a variant in which a finished subject can be followed by project rules
ProjectStatesLate == {"Begin", "RulesDefined"}
\* the impl block that defines rules_for_project
ProjectStates == {"Begin"}
\* a variant in which every state can be built
BuildStatesAll ==
    {"Begin", "ProjectBegin", "ProjectDefined", "SubjectDefined", "RulesDefined"}
\* the impl blocks that define build
BuildStates == {"ProjectDefined", "RulesDefined"}

\* a variant of push that puts the rule in front
PushFront(v, x) == <<x>> \o v
\* Vec::push
Push(v, x) == Append(v, x)

\* the rules the methods box
MayDependOnRule(subject, dependencies) ==
    [kind |-> "MayDependOn", subject |-> subject, list |-> dependencies]
MustNotDependOnRule(subject, dependencies) ==
    [kind |-> "MustNotDependOn", subject |-> subject, list |-> dependencies]
MustNotDependOnAnythingRule(subject) ==
    [kind |-> "MustNotDependOnAnything", subject |-> subject, list |-> <<>>]
MustNotHaveCircularDependencies(d) == [max_depth |-> d]
\* SubjectInjectableRuleBuilder::for_subject of a builder of the caller: the
\* rule it returns holds the subject it was given
ForSubject(builder, subject) ==
    [kind |-> "Custom", subject |-> subject, list |-> <<builder>>]

\* the arguments of the calls
DslSubjects == {"app", "domain"}
DslDependencies == {<<"std::fmt", "domain">>}
DslBuilders == {"MustNotContainAttribute"}

\* ArchitecturalRules::define()
InitDsl ==
    /\ bstate = "Begin"
    /\ current_subject = None
    /\ dsl_rules = [module_rules |-> <<>>, project_rules |-> <<>>]
    /\ built = None
    /\ calls = <<>>
    /\ filesystem = NoFs /\ ResolveIdle /\ DiscIdle /\ OrderIdle
    /\ IcIdle /\ RuleIdle /\ EngineIdle /\ CycleIdle /\ ProjIdle /\ DepIdle

\* the chain goes on with the call of method m on argument a
Called(m, a) ==
    /\ Len(calls) < MaxCalls
    /\ calls' = Append(calls, [method |-> m, arg |-> a])
    /\ UNCHANGED <<built, filesystem, resolveVars, discVars, orderVars,
                   icVars, ruleVars, engineVars, cycleVars, projVars, depVars>>

\* the body shared by the methods that add a module rule
PushModuleRule(rule_) ==
    /\ dsl_rules' = [module_rules |-> Push(dsl_rules.module_rules, rule_),
                     project_rules |-> dsl_rules.project_rules]
    /\ bstate' = "RulesDefined"
    /\ UNCHANGED current_subject

\* rules_for_crate(crate_name), in the three impl blocks that define it
RulesForCrate ==
    /\ bstate \in SubjectStates
    /\ \E crate_name \in DslSubjects :
          /\ current_subject' = Some(crate_name)
          /\ Called("rules_for_crate", crate_name)
    /\ bstate' = "SubjectDefined"
    /\ UNCHANGED dsl_rules

\* rules_for_module(crate_name), in the three impl blocks that define it
RulesForModule ==
    /\ bstate \in SubjectStates
    /\ \E crate_name \in DslSubjects :
          /\ current_subject' = Some(crate_name)
          /\ Called("rules_for_module", crate_name)
    /\ bstate' = "SubjectDefined"
    /\ UNCHANGED dsl_rules

\* rules_for_project()
RulesForProject ==
    /\ bstate \in ProjectStates
    /\ current_subject' = None
    /\ bstate' = "ProjectBegin"
    /\ Called("rules_for_project", "")
    /\ UNCHANGED dsl_rules

\* it_must_not_have_circular_dependencies(max_depth)
ItMustNotHaveCircularDependencies ==
    /\ bstate = "ProjectBegin"
    /\ \E d \in Depths :
          /\ dsl_rules' =
               [project_rules |-> Push(dsl_rules.project_rules,
                                       MustNotHaveCircularDependencies(d)),
                module_rules |-> dsl_rules.module_rules]
          /\ Called("it_must_not_have_circular_dependencies", d)
    /\ bstate' = "ProjectDefined"
    /\ UNCHANGED current_subject

\* it_may_depend_on(dependencies)
ItMayDependOn ==
    /\ bstate = "SubjectDefined"
    /\ \E dependencies \in DslDependencies :
          /\ PushModuleRule(MayDependOnRule(current_subject[1], dependencies))
          /\ Called("it_may_depend_on", dependencies)

\* it_must_not_depend_on(dependencies)
ItMustNotDependOn ==
    /\ bstate = "SubjectDefined"
    /\ \E dependencies \in DslDependencies :
          /\ PushModuleRule(MustNotDependOnRule(current_subject[1], dependencies))
          /\ Called("it_must_not_depend_on", dependencies)

\* it_must_not_depend_on_anything()
ItMustNotDependOnAnything ==
    /\ bstate = "SubjectDefined"
    /\ PushModuleRule(MustNotDependOnAnythingRule(current_subject[1]))
    /\ Called("it_must_not_depend_on_anything", "")

\* it(rule)
It ==
    /\ bstate = "SubjectDefined"
    /\ \E builder \in DslBuilders :
          /\ PushModuleRule(ForSubject(builder, current_subject[1]))
          /\ Called("it", builder)

\* and_it_may_depend_on(dependencies)
AndItMayDependOn ==
    /\ bstate = "RulesDefined"
    /\ \E dependencies \in DslDependencies :
          /\ PushModuleRule(MayDependOnRule(current_subject[1], dependencies))
          /\ Called("and_it_may_depend_on", dependencies)

\* and_must_not_depend_on(dependencies)
AndMustNotDependOn ==
    /\ bstate = "RulesDefined"
    /\ \E dependencies \in DslDependencies :
          /\ PushModuleRule(MustNotDependOnRule(current_subject[1], dependencies))
          /\ Called("and_must_not_depend_on", dependencies)

\* and_it_must_not_depend_on_anything()
AndItMustNotDependOnAnything ==
    /\ bstate = "RulesDefined"
    /\ PushModuleRule(MustNotDependOnAnythingRule(current_subject[1]))
    /\ Called("and_it_must_not_depend_on_anything", "")

\* and_it(rule)
AndIt ==
    /\ bstate = "RulesDefined"
    /\ \E builder \in DslBuilders :
          /\ PushModuleRule(ForSubject(builder, current_subject[1]))
          /\ Called("and_it", builder)

\* build(), in the two impl blocks that define it: the builder is consumed
Build ==
    /\ bstate \in BuildStates
    /\ built' = Some(dsl_rules)
    /\ bstate' = "Built"
    /\ UNCHANGED <<current_subject, dsl_rules, calls, filesystem, resolveVars,
                   discVars, orderVars,
                   icVars, ruleVars, engineVars, cycleVars, projVars, depVars>>

NextDsl ==
    \/ RulesForCrate
    \/ RulesForModule
    \/ RulesForProject
    \/ ItMustNotHaveCircularDependencies
    \/ ItMayDependOn
    \/ ItMustNotDependOn
    \/ ItMustNotDependOnAnything
    \/ It
    \/ AndItMayDependOn
    \/ AndMustNotDependOn
    \/ AndItMustNotDependOnAnything
    \/ AndIt
    \/ Build
SpecDsl == InitDsl /\ [][NextDsl]_vars

(***************************************************************************)
(* What the claims on the builder speak of, stated on the chain of calls.  *)
(***************************************************************************)
SubjectMethods == {"rules_for_crate", "rules_for_module"}
MayMethods == {"it_may_depend_on", "and_it_may_depend_on"}
MustNotMethods == {"it_must_not_depend_on", "and_must_not_depend_on"}
AnythingMethods == {"it_must_not_depend_on_anything", "and_it_must_not_depend_on_anything"}
CustomMethods == {"it", "and_it"}
ModuleRuleMethods == MayMethods \cup MustNotMethods \cup AnythingMethods \cup CustomMethods
ProjectRuleMethods == {"it_must_not_have_circular_dependencies"}

\* the module rules a chain of calls asks for: one per rule-adding call, in
\* call order, on the subject of the last subject call before it
RECURSIVE ModuleRulesOfCalls(_, _)
ModuleRulesOfCalls(cs, subject) ==
    IF cs = <<>> THEN <<>>
    ELSE LET c == cs[1]
             kind == IF c.method \in MayMethods THEN "MayDependOn"
                     ELSE IF c.method \in MustNotMethods THEN "MustNotDependOn"
                     ELSE IF c.method \in AnythingMethods THEN "MustNotDependOnAnything"
                     ELSE "Custom"
             list == IF c.method \in AnythingMethods THEN <<>>
                     ELSE IF c.method \in CustomMethods THEN <<c.arg>>
                     ELSE c.arg
         IN  IF c.method \in SubjectMethods THEN ModuleRulesOfCalls(Tail(cs), c.arg)
             ELSE IF c.method \in ModuleRuleMethods
             THEN <<[kind |-> kind, subject |-> subject, list |-> list]>>
                     \o ModuleRulesOfCalls(Tail(cs), subject)
             ELSE ModuleRulesOfCalls(Tail(cs), subject)

\* the project rules a chain of calls asks for
RECURSIVE ProjectRulesOfCalls(_)
ProjectRulesOfCalls(cs) ==
    IF cs = <<>> THEN <<>>
    ELSE IF cs[1].method \in ProjectRuleMethods
    THEN <<[max_depth |-> cs[1].arg]>> \o ProjectRulesOfCalls(Tail(cs))
    ELSE ProjectRulesOfCalls(Tail(cs))

RuleAddingCalls ==
    {i \in DOMAIN calls : calls[i].method \in ModuleRuleMethods \cup ProjectRuleMethods}

\* C23: build() returns only from the states ProjectDefined and RulesDefined;
\* a built rule set holds at least one rule, and every subject opened in its
\* chain is followed by a rule for it.
C23_BuildOnlyWithRules ==
    /\ [][built' # built => bstate \in {"ProjectDefined", "RulesDefined"}]_vars
    /\ [](built # None =>
            /\ Len(built[1].module_rules) + Len(built[1].project_rules) >= 1
            /\ \A i \in DOMAIN calls :
                  calls[i].method \in SubjectMethods
                      => /\ i < Len(calls)
                         /\ calls[i + 1].method \in ModuleRuleMethods)

\* C23 witness: a rule set was built at the end of a chain of MaxCalls calls
\* that opens two subjects.
C23_Witness ==
    /\ built # None
    /\ Len(calls) = MaxCalls
    /\ Cardinality({i \in DOMAIN calls : calls[i].method \in SubjectMethods}) = 2

\* C24: every rule-adding call appends one rule to its list and leaves the
\* rules before it alone, no other call changes the rules, and the built rule
\* set holds the rules of the rule-adding calls in call order, each module
\* rule (custom ones included) on the subject of the last subject call.
C24_RuleAccumulation ==
    /\ [][calls' # calls =>
            LET c == calls'[Len(calls')]
                before == dsl_rules
                after == dsl_rules'
            IN  IF c.method \in ModuleRuleMethods
                THEN /\ Len(after.module_rules) = Len(before.module_rules) + 1
                     /\ SubSeq(after.module_rules, 1, Len(before.module_rules))
                           = before.module_rules
                     /\ after.project_rules = before.project_rules
                ELSE IF c.method \in ProjectRuleMethods
                THEN /\ Len(after.project_rules) = Len(before.project_rules) + 1
                     /\ SubSeq(after.project_rules, 1, Len(before.project_rules))
                           = before.project_rules
                     /\ after.module_rules = before.module_rules
                ELSE after = before]_vars
    /\ [](built # None =>
            /\ built[1].module_rules = ModuleRulesOfCalls(calls, "")
            /\ built[1].project_rules = ProjectRulesOfCalls(calls)
            /\ Len(built[1].module_rules) + Len(built[1].project_rules)
                  = Cardinality(RuleAddingCalls))

\* C24 witness: a built rule set in which a custom rule on one subject
\* follows a rule on another subject.
C24_Witness ==
    /\ built # None
    /\ \E i, j \in DOMAIN built[1].module_rules :
          /\ i < j
          /\ built[1].module_rules[i].subject # built[1].module_rules[j].subject
          /\ built[1].module_rules[j].kind = "Custom"

\* C30: rules_for_project is called only in Begin and is followed only by
\* it_must_not_have_circular_dependencies; the project rules never number
\* more than one, are added while there is no module rule, and are left
\* alone by the calls that add module rules, as the module rules are by the
\* call that adds a project rule.
C30_ProjectRules ==
    /\ [][bstate' = "ProjectBegin" => bstate = "Begin"]_vars
    /\ [][bstate = "ProjectBegin" =>
            /\ bstate' = "ProjectDefined"
            /\ calls'[Len(calls')].method \in ProjectRuleMethods]_vars
    /\ [](Len(dsl_rules.project_rules) <= 1)
    /\ [](built # None => Len(built[1].project_rules) <= 1)
    /\ [][dsl_rules'.project_rules # dsl_rules.project_rules =>
            /\ dsl_rules.module_rules = <<>>
            /\ dsl_rules'.module_rules = <<>>]_vars
    /\ [][dsl_rules'.module_rules # dsl_rules.module_rules =>
            dsl_rules'.project_rules = dsl_rules.project_rules]_vars

\* C30 witness: a built rule set with a project rule and module rules.
C30_Witness ==
    /\ built # None
    /\ Len(built[1].project_rules) = 1
    /\ Len(built[1].module_rules) >= 2

(***************************************************************************)
(* find_all_cycles_in_dependencies with the iteration order of its hash    *)
(* maps made explicit: a HashMap yields its entries in an order that its   *)
(* content does not fix.                                                   *)
(***************************************************************************)
\* the orders in which a map may yield its entries
IterationOrders(S) ==
    {q \in [1..Cardinality(S) -> S] : \A i, j \in DOMAIN q : q[i] = q[j] => i = j}

\* a variant that leaves a dependency vector as the loop extended it
AsExtended(deps) == deps
\* deps.sort(); deps.dedup();
SortAndDedup(deps) == SortDedup(Range(deps))

\* the first loop of unify_submodules_in_graph over the entries in the order
\* they are yielded: new_graph.entry(unified_node).or_insert_with(Vec::new)
\* .extend(unified_deps)
RECURSIVE ExtendInOrder(_, _, _)
ExtendInOrder(order, d, new_graph) ==
    IF order = <<>> THEN new_graph
    ELSE LET deps == order[1][2]
             unified_node == UnifySubmodules(order[1][1], d)
             unified_deps == [i \in DOMAIN deps |-> UnifySubmodules(deps[i], d)]
             old == IF unified_node \in Keys(new_graph)
                    THEN Get(new_graph, unified_node) ELSE <<>>
         IN  ExtendInOrder(Tail(order), d,
                           {e \in new_graph : e[1] # unified_node}
                              \cup {<<unified_node, old \o unified_deps>>})

\* unify_submodules_in_graph(original_graph, max_depth), the original graph
\* yielding its entries in the given order
UnifySubmodulesInGraphInOrder(order, d) ==
    LET extended == ExtendInOrder(order, d, {})
        all_deps == UNION {Range(e[2]) : e \in extended}
        new_graph == extended \cup {<<n, <<>>>> : n \in all_deps \ Keys(extended)}
    IN  {<<e[1], SortAndDedup(e[2])>> : e \in new_graph}

\* the indices of the dependencies that node_index knows
RECURSIVE IndicesOf(_, _)
IndicesOf(deps, nodes) ==
    IF deps = <<>> THEN <<>>
    ELSE IF Contains(nodes, deps[1])
    THEN <<IndexOf(nodes, deps[1])>> \o IndicesOf(Tail(deps), nodes)
    ELSE IndicesOf(Tail(deps), nodes)

\* build_adjacency_list, the graph yielding its entries in the given order
RECURSIVE BuildAdjacencyListInOrder(_, _, _)
BuildAdjacencyListInOrder(order, nodes, adjacency_list) ==
    IF order = <<>> THEN adjacency_list
    ELSE LET i == IndexOf(nodes, order[1][1])
         IN  BuildAdjacencyListInOrder(
                 Tail(order), nodes,
                 [adjacency_list EXCEPT ![i] = @ \o IndicesOf(order[1][2], nodes)])

\* find_all_cycles_in_dependencies after unify_submodules_in_graph, the
\* unified graph yielding its entries in the given order
FindCyclesInOrder(order) ==
    LET nodes == SortDedup({order[i][1] : i \in DOMAIN order})
        adjacency_list ==
            BuildAdjacencyListInOrder(order, nodes, [i \in DOMAIN nodes |-> <<>>])
        sccs == TarjanScc(adjacency_list)
    IN  CyclesOfSccs(sccs, 1, nodes, adjacency_list)

(***************************************************************************)
(* SpecOrder: one call of find_all_cycles_in_dependencies in two steps,    *)
(* each under every iteration order of the map it walks.                   *)
(***************************************************************************)
\* most nodes a drawn graph has
MaxOrderKeys == 3

\* the dependency vectors of the drawn graphs: unsorted and with repetitions
OrderDepLists ==
    {<<>>, <<"a">>, <<"b", "a">>, <<"b::y", "a::x", "b::y">>, <<"a::x", "b">>}

InitOrder ==
    /\ \E K \in {N \in SUBSET CycleNames : Cardinality(N) <= MaxOrderKeys} :
       \E f \in [K -> OrderDepLists] :
          graph = {<<k, f[k]>> : k \in K}
    /\ max_depth \in Depths
    /\ cycles = <<>> /\ cpc = "new"
    /\ iteration = <<>> /\ unified = {}
    /\ filesystem = NoFs /\ ResolveIdle /\ DiscIdle /\ DslIdle
    /\ IcIdle /\ RuleIdle /\ EngineIdle /\ ProjIdle /\ DepIdle

\* let unified_graph = unify_submodules_in_graph(graph, max_depth);
UnifyGraph ==
    /\ cpc = "new"
    /\ iteration' \in IterationOrders(graph)
    /\ unified' = UnifySubmodulesInGraphInOrder(iteration', max_depth)
    /\ cpc' = "unified"
    /\ UNCHANGED <<graph, max_depth, cycles, filesystem, resolveVars, discVars, dslVars,
                   icVars, ruleVars, engineVars, projVars, depVars>>

\* the rest of find_all_cycles_in_dependencies
FindCycles ==
    /\ cpc = "unified"
    /\ \E order \in IterationOrders(unified) : cycles' = FindCyclesInOrder(order)
    /\ cpc' = "found"
    /\ UNCHANGED <<graph, max_depth, iteration, unified, filesystem, resolveVars,
                   discVars, dslVars, icVars, ruleVars, engineVars, projVars, depVars>>

NextOrder == UnifyGraph \/ FindCycles
SpecOrder == InitOrder /\ [][NextOrder]_vars

(***************************************************************************)
(* What the claims on determinism and on truncation speak of.              *)
(***************************************************************************)
\* the names that occur in the drawn graph
NamesOf(g) == Keys(g) \cup UNION {Range(e[2]) : e \in g}

\* a vector of strings in strictly ascending order
StrictlyAscending(q) == \A i, j \in DOMAIN q : i < j => StrLess(q[i], q[j])

\* C27: whatever the order in which the hash maps yield their entries, the
\* list find_all_cycles_in_dependencies returns is the one that the content
\* of the graph and max_depth determine.
C27_Deterministic ==
    cpc = "found" => cycles = FindAllCyclesInDependencies(graph, max_depth)

\* C27 witness: cycles were found on a graph whose entries were yielded in an
\* order other than the ascending one, two of them extending the same node.
C27_Witness ==
    /\ cpc = "found"
    /\ cycles # <<>>
    /\ \E i, j \in DOMAIN iteration :
          /\ i < j
          /\ StrLess(iteration[j][1], iteration[i][1])
          /\ UnifySubmodules(iteration[i][1], max_depth)
                = UnifySubmodules(iteration[j][1], max_depth)
          /\ iteration[i][2] # <<>> /\ iteration[j][2] # <<>>

\* C28: unify_submodules keeps a name of at most max_depth segments and cuts
\* any other to its first max_depth segments (the empty string for depth 0),
\* and is idempotent; the unified graph has the truncated keys and
\* dependencies as its nodes, gives each node the truncated dependencies of
\* all keys that truncate to it, in ascending order without repetition, and
\* for depth 0 and a graph with entries has the empty string as its only node.
C28_Truncation ==
    cpc # "new" =>
        /\ \A n \in NamesOf(graph) :
              LET u == UnifySubmodules(n, max_depth)
                  segs == Segments(n)
              IN  /\ Len(segs) <= max_depth => u = n
                  /\ Len(segs) > max_depth
                        => u = Join([i \in 1..max_depth |-> segs[i]], "::")
                  /\ max_depth = 0 => u = ""
                  /\ UnifySubmodules(u, max_depth) = u
        /\ Keys(unified) = TruncatedNodes(graph, max_depth)
        /\ Cardinality(unified) = Cardinality(Keys(unified))
        /\ \A e \in unified :
              /\ Range(e[2]) = {x[2] : x \in {y \in TruncatedEdges(graph, max_depth) :
                                                y[1] = e[1]}}
              /\ StrictlyAscending(e[2])
        /\ (max_depth = 0 /\ graph # {}) => Keys(unified) = {""}

\* C28 witness: two keys with dependencies were merged into one node, and a
\* dependency that was no key became a node.
C28_Witness ==
    /\ cpc = "unified"
    /\ max_depth = 1
    /\ \E e, f \in graph :
          /\ e[1] # f[1]
          /\ Truncated(e[1], 1) = Truncated(f[1], 1)
          /\ e[2] # <<>> /\ f[2] # <<>>
    /\ Keys(unified) # {Truncated(k, 1) : k \in Keys(graph)}

\* C29: MayDependOnRule(subject, S) and MustNotDependOnAnythingRule(subject, S)
\* agree on every file: is_applicable gives the same answer and apply the
\* same outcome, Ok or the Err naming the same forbidden dependencies.
C29_SameAsMustNotDependOnAnything ==
    (rpc = "applied" /\ rule.kind = "MayDependOn") =>
        LET other == [rule EXCEPT !.kind = "MustNotDependOnAnything"]
        IN  /\ applicable = MustNotDependOnAnythingIsApplicable(other, file)
            /\ outcome = MustNotDependOnAnythingApply(other, file)

====
